---- MODULE Spec2Model ----
(***************************************************************************)
(* Dependency-graph scheduling and reconciliation engine of the Asana      *)
(* automation backend: the business-day calendar, the date propagator      *)
(* (Scheduler.calculate_dates, backend/services.py), the reconciler        *)
(* (auto_recalibrate, backend/date_logic.py), the cascade updater          *)
(* (recalculate_dates, backend/date_logic.py) and the task graph builder   *)
(* (Scheduler.add_task, Scheduler.resolve_successor, backend/services.py). *)
(*                                                                         *)
(* Dates are day numbers; day 0 is a Monday, so weekday(d) = d % 7 and     *)
(* 5, 6 are Saturday and Sunday (datetime.weekday()).                      *)
(***************************************************************************)
EXTENDS Integers, Sequences, FiniteSets, TLC

\* ---------------------------------------------------------------- bounds
MaxTasks == 3
MaxEdges == 2
MaxDays == 6

\* ------------------------------------------------------- input alphabets
\* Lags handed to resolve_successor, durations written on a task, and the
\* weekdays the process-wide "today" is drawn from (Thursday, Saturday).
Lags == {0, 2}
Durations == {0, 3}
Todays == {3, 5}

\* The dates the calendar functions are called on: two full weeks.
CalendarDays == 0..13

\* -------------------------------------------------------------- calendar
weekday(d) == d % 7

\* The weekend loop run backwards: a Saturday or Sunday falls to the Friday.
RECURSIVE snap_to_previous_workday(_)
snap_to_previous_workday(d) ==
    IF weekday(d) >= 5 THEN snap_to_previous_workday(d - 1) ELSE d

\* while d.weekday() >= 5: d += timedelta(days=1)
RECURSIVE snap_to_workday(_)
snap_to_workday(d) == IF weekday(d) >= 5 THEN snap_to_workday(d + 1) ELSE d

\* Every day counts, Saturdays and Sundays included.
add_calendar_days(from_date, days_to_add) == from_date + days_to_add

RECURSIVE add_business_days(_, _)
add_business_days(from_date, days_to_add) ==
    IF days_to_add > 0
    THEN LET current == from_date + 1
         IN  IF weekday(current) < 5
             THEN add_business_days(current, days_to_add - 1)
             ELSE add_business_days(current, days_to_add)
    ELSE from_date

RECURSIVE count_business_days(_, _)
count_business_days(start, end) ==
    IF start <= end
    THEN (IF weekday(start) < 5 THEN 1 ELSE 0) + count_business_days(start + 1, end)
    ELSE 0

max(a, b) == IF a >= b THEN a ELSE b

\* ---------------------------------------------------------- date strings
\* A date string of a task dict: "iso" is a zero-padded %Y-%m-%d string,
\* "loose" one that strptime accepts but strftime would not produce
\* ("2024-1-5"), "bad" one that strptime rejects (or None).
DateStr(kind, day) == [kind |-> kind, day |-> day]

\* datetime.strptime(s, "%Y-%m-%d"): the day, or the ValueError/TypeError.
strptime(s) == IF s.kind = "bad" THEN [ok |-> FALSE, day |-> 0]
               ELSE [ok |-> TRUE, day |-> s.day]

\* d.strftime("%Y-%m-%d")
strftime(d) == DateStr("iso", d)

\* ------------------------------------------------------------------ state
\* Scheduler (services.py)
VARIABLES
    tasks,              \* Scheduler.tasks: insertion-ordered, position = task id
    reverse_adjacency,  \* Scheduler.reverse_adjacency: succ id -> <<pred id, lag>>*
    today,              \* datetime.now() with the time of day stripped
    changed,            \* calculate_dates: local 'changed'
    iterations,         \* calculate_dates: local 'iterations'
    pc,                 \* position of the caller in calculate_dates
    rerun,              \* TRUE when this call started on an already scheduled graph
    before_call,        \* the task table as it stood when the current call started
    scheduled           \* the list get_scheduled_tasks returned, <<>> before the call

schedVars == <<tasks, reverse_adjacency, today, changed, iterations, pc, rerun, before_call,
               scheduled>>

\* Reconciler call (date_logic.py, main.py)
VARIABLES
    rc_tasks,     \* the list of task dicts handed to auto_recalibrate (mutated in place)
    rc_input,     \* the same list as it was when the call started
    rc_result,    \* modified_tasks, as the gids of the dicts it holds
    rc_pc         \* "call" before auto_recalibrate runs, "returned" after

recalVars == <<rc_tasks, rc_input, rc_result, rc_pc>>

\* Cascade updater call (date_logic.py, main.py)
VARIABLES
    rd_tasks,          \* the list of task dicts handed to recalculate_dates (mutated in place)
    rd_input,          \* the same list as it was when the call started
    changed_task_gid,  \* the gid of the edited task
    new_end_date_str,  \* the new end date, as the request carries it
    rd_result,         \* the returned list, as the gids of the dicts it holds
    rd_pc              \* "call" before the call, then "returned" or "raised"

cascadeVars == <<rd_tasks, rd_input, changed_task_gid, new_end_date_str, rd_result, rd_pc>>

\* Task graph under construction (services.py, main.py schedule_tasks)
VARIABLES
    b_tasks,              \* Scheduler.tasks while the graph is built: the task dicts in insertion order
    tasks_by_name,        \* Scheduler.tasks_by_name: [name, ids] entries in key insertion order
    adjacency,            \* Scheduler.adjacency: <<pred, succ, lag>> in the order appended
    b_reverse_adjacency,  \* Scheduler.reverse_adjacency: <<succ, pred, lag>> in the order appended
    b_call,               \* the last resolve_successor call: its arguments and what it returned
    b_prev,               \* Scheduler.tasks as it stood when that call started
    resolve_calls,        \* the number of resolve_successor calls made so far
    b_add,                \* the add_task call of the first pass made last: its arguments,
                          \* and the task table and name index as they stood when it started
    b_inherit             \* whether inherit_missing_sections has run, and Scheduler.tasks
                          \* as it stood when it started

buildVars == <<b_tasks, tasks_by_name, adjacency, b_reverse_adjacency, b_call, b_prev,
               resolve_calls, b_add, b_inherit>>

\* The periodic control loop, the remote service and the history store
\* (main.py, services.py AsanaManager, database.py).
VARIABLES
    asana_tasks,   \* the project's tasks in the remote service, by gid
    history,       \* table task_history: gid -> record
    sync_request,  \* request.tasks of a /sync-asana call that has not been served yet
    p_pc,          \* where background_poller (or sync_asana) stands
    p_tasks,       \* background_poller's local 'tasks'
    p_fetched,     \* the task list as fetch_project_tasks returned it in this cycle
    updates,       \* background_poller's local 'updates': the gids, in the order returned
    to_push,       \* the part of 'updates' the for loop has not reached yet
    cycle_log,     \* the calls the current cycle has made, in the order made
    ext_edited,    \* a third party has edited a task in the remote service
    last_cycle,    \* how the cycle before ended, since the last third-party edit
    polling_config,  \* main.py polling_config: the active flag and the credentials
    stop_mark      \* the length of cycle_log when the first stop-polling request since
                   \* the last start completed (0 once that cycle is over), -1 if none

pollVars == <<asana_tasks, history, sync_request, p_pc, p_tasks, p_fetched, updates, to_push,
              cycle_log, ext_edited, last_cycle, polling_config, stop_mark>>

\* Business-day calendar call (date_logic.py, services.py)
VARIABLES
    cal_from,     \* from_date / start handed to the calendar functions
    cal_days,     \* days_to_add
    cal_end,      \* the date add_business_days returned
    cal_count,    \* the number count_business_days returned
    cal_pc        \* "add" before add_business_days runs, then "count", then "counted"

calVars == <<cal_from, cal_days, cal_end, cal_count, cal_pc>>

vars == <<schedVars, recalVars, cascadeVars, buildVars, pollVars, calVars>>

\* No calendar call is in progress.
CalIdle ==
    /\ cal_from = 0
    /\ cal_days = 0
    /\ cal_end = 0
    /\ cal_count = 0
    /\ cal_pc = "idle"

\* A Scheduler on which nothing has been added yet (Scheduler.__init__).
SchedIdle ==
    /\ tasks = <<>>
    /\ reverse_adjacency = <<>>
    /\ today = 0
    /\ changed = FALSE
    /\ iterations = 0
    /\ pc = "idle"
    /\ rerun = FALSE
    /\ before_call = <<>>
    /\ scheduled = <<>>

\* No call of auto_recalibrate is under way.
RecalIdle ==
    /\ rc_tasks = <<>>
    /\ rc_input = <<>>
    /\ rc_result = <<>>
    /\ rc_pc = "call"

\* The id no task carries: Python's None as a selected id.
NoId == [kind |-> "none", n |-> 0, name |-> "", sec |-> ""]

\* No add_task call of the first pass is the last call made on the Scheduler.
NoAdd == [task_id |-> NoId, name |-> "", section |-> "", tasks |-> <<>>, tasks_by_name |-> <<>>]

\* A Scheduler whose graph nobody has started to build (Scheduler.__init__).
BuildIdle ==
    /\ b_tasks = <<>>
    /\ tasks_by_name = <<>>
    /\ adjacency = <<>>
    /\ b_reverse_adjacency = <<>>
    /\ b_call = [predecessor_id |-> NoId, successor_name |-> "", returned |-> NoId]
    /\ b_prev = <<>>
    /\ resolve_calls = 0
    /\ b_add = NoAdd
    /\ b_inherit = [done |-> FALSE, tasks |-> <<>>]

\* No poller runs and no materialization is requested.
PollIdle ==
    /\ asana_tasks = <<>>
    /\ history = <<>>
    /\ sync_request = <<>>
    /\ p_pc = "idle"
    /\ p_tasks = <<>>
    /\ p_fetched = <<>>
    /\ updates = <<>>
    /\ to_push = <<>>
    /\ cycle_log = <<>>
    /\ ext_edited = FALSE
    /\ last_cycle = "none"
    /\ polling_config = [active |-> FALSE, pat |-> "", project_gid |-> ""]
    /\ stop_mark = -1

\* No call of recalculate_dates is under way.
CascadeIdle ==
    /\ rd_tasks = <<>>
    /\ rd_input = <<>>
    /\ changed_task_gid = 0
    /\ new_end_date_str = <<>>
    /\ rd_result = <<>>
    /\ rd_pc = "call"

\* ------------------------------------------------- Scheduler (services.py)
TaskIds == 1..MaxTasks

\* One recorded edge, as resolve_successor appends it: <<pred, succ, lag>>.
EdgeKinds == TaskIds \X TaskIds \X Lags

EdgeLists == UNION {[1..n -> EdgeKinds] : n \in 0..MaxEdges}

\* reverse_adjacency[s]: the <<pred, lag>> pairs of the edges into s, in the
\* order resolve_successor appended them.
RECURSIVE PredsOf(_, _)
PredsOf(edges, s) ==
    IF edges = <<>> THEN <<>>
    ELSE LET e == Head(edges)
         IN  (IF e[2] = s THEN <<(<<e[1], e[3]>>)>> ELSE <<>>) \o PredsOf(Tail(edges), s)

\* add_task: start_date and end_date are datetime.now(), duration is written
\* afterwards by the caller (main.py).
NewTask(now, duration) == [duration |-> duration, start_date |-> now, end_date |-> now]

\* The cap is one pass short of the task count.
max_iter_short == Len(tasks) - 1

\* max_iter = len(self.tasks) + 10
max_iter == Len(tasks) + 10

\* The loop runs for as long as a pass changes something.
loop_cond_nocap == changed

\* while changed and iterations < max_iter
loop_cond == changed /\ iterations < max_iter

\* The last qualifying predecessor wins instead of the latest one.
RECURSIVE max_pred_finish_last(_, _, _)
max_pred_finish_last(ts, preds, acc) ==
    IF preds = <<>> THEN acc
    ELSE max_pred_finish_last(ts, Tail(preds),
                              max(today, ts[Head(preds)[1]].end_date + Head(preds)[2]))

\* Every edge adds its lag on top of what the edges before it required, so
\* repeated edges between one pair stack their lags.
RECURSIVE max_pred_finish_stacked(_, _, _)
max_pred_finish_stacked(ts, preds, acc) ==
    IF preds = <<>> THEN acc
    ELSE max_pred_finish_stacked(ts, Tail(preds),
                                 max(acc, ts[Head(preds)[1]].end_date) + Head(preds)[2])

\* for pred_name, lag in preds: ... max_pred_finish (starts at today)
RECURSIVE max_pred_finish(_, _, _)
max_pred_finish(ts, preds, acc) ==
    IF preds = <<>> THEN acc
    ELSE LET pred_name == Head(preds)[1]
             lag == Head(preds)[2]
         IN  IF pred_name \in DOMAIN ts
             THEN LET candidate_start == ts[pred_name].end_date + lag
                  IN  max_pred_finish(ts, Tail(preds),
                                      IF candidate_start > acc THEN candidate_start ELSE acc)
             ELSE max_pred_finish(ts, Tail(preds), acc)

\* The start date is taken as it comes, without the weekend loop.
Placed_nosnap(t, start) ==
    [t EXCEPT !.start_date = start,
              !.end_date = add_business_days(start, max(1, t.duration) - 1)]

\* Lines 146-150 (and 119-123): place a task at a start date.
Placed(t, start) ==
    LET s == snap_to_workday(start)
        d == max(1, t.duration)
    IN  [t EXCEPT !.start_date = s, !.end_date = add_business_days(s, d - 1)]

\* The end date is computed from the start date the task had before the call.
InitTask_stale(t) ==
    [t EXCEPT !.start_date = snap_to_workday(today),
              !.end_date = add_business_days(t.start_date, max(1, t.duration) - 1)]

\* Lines 118-123: the initialisation of one task.
InitTask(t) == Placed(t, today)

\* The body of 'for task_name in self.tasks' for one task: <<task, changed>>.
RelaxTask(ts, task_name, ch) ==
    LET task == ts[task_name]
        preds == reverse_adjacency[task_name]
    IN  IF preds = <<>> THEN <<task, ch>>
        ELSE LET m == max_pred_finish(ts, preds, today)
             IN  IF m > task.start_date THEN <<Placed(task, m), TRUE>>
                 ELSE <<task, ch>>

\* One full pass of the for loop, tasks taken in insertion order, each seeing
\* the dates already written earlier in the same pass.
RECURSIVE RelaxFrom(_, _, _)
RelaxFrom(ts, i, ch) ==
    IF i > Len(ts) THEN <<ts, ch>>
    ELSE LET r == RelaxTask(ts, i, ch)
         IN  RelaxFrom([ts EXCEPT ![i] = r[1]], i + 1, r[2])

InitSched ==
    /\ today \in Todays
    /\ \E durs \in [TaskIds -> Durations] :
            tasks = [i \in TaskIds |-> NewTask(today, durs[i])]
    /\ \E edges \in EdgeLists :
            reverse_adjacency = [s \in TaskIds |-> PredsOf(edges, s)]
    /\ changed = FALSE
    /\ iterations = 0
    /\ pc = "idle"
    /\ rerun = FALSE
    /\ before_call = tasks
    /\ scheduled = <<>>
    /\ RecalIdle
    /\ CascadeIdle
    /\ BuildIdle
    /\ CalIdle
    /\ PollIdle

\* calculate_dates, lines 117-127: initialisation of every task. The caller
\* runs the propagator on a freshly built graph, and may run it again on a
\* graph it has left converged.
CalcInit ==
    /\ pc = "idle" \/ (pc = "done" /\ ~changed)
    /\ rerun' = (pc = "done")
    /\ before_call' = tasks
    /\ tasks' = [i \in DOMAIN tasks |-> InitTask(tasks[i])]
    /\ changed' = TRUE
    /\ iterations' = 0
    /\ pc' = "loop"
    /\ scheduled' = <<>>
    /\ UNCHANGED <<reverse_adjacency, today>>
    /\ UNCHANGED recalVars
    /\ UNCHANGED cascadeVars
    /\ UNCHANGED buildVars
    /\ UNCHANGED pollVars
    /\ UNCHANGED calVars

\* calculate_dates, lines 129-151: one iteration of the while loop.
RelaxPass ==
    /\ pc = "loop"
    /\ loop_cond
    /\ LET r == RelaxFrom(tasks, 1, FALSE)
       IN  /\ tasks' = r[1]
           /\ changed' = r[2]
    /\ iterations' = iterations + 1
    /\ UNCHANGED <<reverse_adjacency, today, pc, rerun, before_call, scheduled>>
    /\ UNCHANGED recalVars
    /\ UNCHANGED cascadeVars
    /\ UNCHANGED buildVars
    /\ UNCHANGED pollVars
    /\ UNCHANGED calVars

\* calculate_dates, line 129 (loop exit) and line 152.
CalcReturn ==
    /\ pc = "loop"
    /\ ~loop_cond
    /\ pc' = "done"
    /\ UNCHANGED <<tasks, reverse_adjacency, today, changed, iterations, rerun, before_call,
                   scheduled>>
    /\ UNCHANGED recalVars
    /\ UNCHANGED cascadeVars
    /\ UNCHANGED buildVars
    /\ UNCHANGED pollVars
    /\ UNCHANGED calVars

\* The name written on the task with the given id: the rows after the first
\* share one name, as same-named tasks of different sections do.
task_name(id) == IF id = 1 THEN "Kickoff" ELSE "Review"

\* The tasks are listed as they were inserted, without the sort.
unsorted_tasks(ts) == [k \in DOMAIN ts |-> k]

\* Place id in the id list 'sorted' behind every entry whose start date is
\* not later than its own (sorted() is stable).
RECURSIVE insert_by_start(_, _, _)
insert_by_start(ts, sorted, id) ==
    IF sorted = <<>> THEN <<id>>
    ELSE IF ts[Head(sorted)].start_date <= ts[id].start_date
         THEN <<Head(sorted)>> \o insert_by_start(ts, Tail(sorted), id)
         ELSE <<id>> \o sorted

RECURSIVE sort_from(_, _, _)
sort_from(ts, sorted, id) ==
    IF id > Len(ts) THEN sorted
    ELSE sort_from(ts, insert_by_start(ts, sorted, id), id + 1)

\* sorted(self.tasks.values(), key=lambda x: x['start_date']), as task ids
sorted_tasks(ts) == sort_from(ts, <<>>, 1)

\* dep_ids and dep_names of one task: one entry per incoming edge
dep_ids(preds) == [k \in DOMAIN preds |-> preds[k][1]]

dep_names(preds) == [k \in DOMAIN preds |-> task_name(preds[k][1])]

ScheduledTask(ts, radj, id) ==
    [id |-> id,
     name |-> task_name(id),
     start_date |-> strftime(ts[id].start_date),
     end_date |-> strftime(ts[id].end_date),
     duration |-> ts[id].duration,
     dependencies |-> IF id \in DOMAIN radj THEN dep_ids(radj[id]) ELSE <<>>,
     dependency_names |-> IF id \in DOMAIN radj THEN dep_names(radj[id]) ELSE <<>>]

get_scheduled_tasks(ts, radj) ==
    LET order == sorted_tasks(ts)
    IN  [k \in DOMAIN order |-> ScheduledTask(ts, radj, order[k])]

\* get_scheduled_tasks, lines 38-61, called once calculate_dates has returned.
GetScheduledTasks ==
    /\ pc = "done"
    /\ scheduled = <<>>
    /\ scheduled' = get_scheduled_tasks(tasks, reverse_adjacency)
    /\ UNCHANGED <<tasks, reverse_adjacency, today, changed, iterations, pc, rerun,
                   before_call>>
    /\ UNCHANGED recalVars
    /\ UNCHANGED cascadeVars
    /\ UNCHANGED buildVars
    /\ UNCHANGED pollVars
    /\ UNCHANGED calVars

NextSched == CalcInit \/ RelaxPass \/ CalcReturn \/ GetScheduledTasks

\* ------------------------------------------- Reconciler (date_logic.py)
\* task_map = {t['gid']: t ...}: the task at position g carries gid g.
InSet(ts, gid) == gid \in DOMAIN ts

\* graph[u]: for gid in task_map, for pred_gid in deps: graph[pred_gid].append(gid)
RECURSIVE Occurrences(_, _)
Occurrences(deps, u) ==
    IF deps = <<>> THEN 0
    ELSE (IF Head(deps) = u THEN 1 ELSE 0) + Occurrences(Tail(deps), u)

Repeat(v, n) == [k \in 1..n |-> v]

RECURSIVE graph_from(_, _, _)
graph_from(ts, u, gid) ==
    IF gid > Len(ts) THEN <<>>
    ELSE Repeat(gid, Occurrences(ts[gid].dependencies, u)) \o graph_from(ts, u, gid + 1)

graph(ts, u) == graph_from(ts, u, 1)

RECURSIVE InSetCount(_, _)
InSetCount(ts, deps) ==
    IF deps = <<>> THEN 0
    ELSE (IF InSet(ts, Head(deps)) THEN 1 ELSE 0) + InSetCount(ts, Tail(deps))

\* Every listed dependency counts, whether or not its gid is in the set.
indegree0_all(ts) == [gid \in DOMAIN ts |-> Len(ts[gid].dependencies)]

indegree0(ts) == [gid \in DOMAIN ts |-> InSetCount(ts, ts[gid].dependencies)]

\* for v in graph[u]: indegree[v] -= 1; if indegree[v] == 0: queue.append(v)
RECURSIVE Release(_, _, _)
Release(succs, indegree, queue) ==
    IF succs = <<>> THEN <<indegree, queue>>
    ELSE LET v == Head(succs)
             ind == [indegree EXCEPT ![v] = @ - 1]
         IN  Release(Tail(succs), ind, IF ind[v] = 0 THEN Append(queue, v) ELSE queue)

\* while queue: u = queue.pop(0); sorted_gids.append(u); ...
RECURSIVE Kahn(_, _, _, _)
Kahn(ts, queue, indegree, sorted_gids) ==
    IF queue = <<>> THEN sorted_gids
    ELSE LET u == Head(queue)
             r == Release(graph(ts, u), indegree, Tail(queue))
         IN  Kahn(ts, r[2], r[1], Append(sorted_gids, u))

\* The forward pass visits the tasks in input order, not in topological order.
sorted_gids_unsorted(ts) == [g \in 1..Len(ts) |-> g]

\* Tasks the topological sort did not reach are appended to the order.
sorted_gids_leftovers(ts) ==
    LET indegree == indegree0(ts)
        all == [g \in 1..Len(ts) |-> g]
        order == Kahn(ts, SelectSeq(all, LAMBDA g : indegree[g] = 0), indegree, <<>>)
    IN  order \o SelectSeq(all, LAMBDA g : \A k \in DOMAIN order : order[k] # g)

\* Lines 190-210: the topological order; tasks on or behind a cycle are absent.
sorted_gids(ts) ==
    LET indegree == indegree0(ts)
        queue == SelectSeq([g \in 1..Len(ts) |-> g], LAMBDA g : indegree[g] = 0)
    IN  Kahn(ts, queue, indegree, <<>>)

\* preds = [task_map[p_gid] for p_gid in deps if p_gid in task_map]
preds_of(ts, gid) == SelectSeq(ts[gid].dependencies, LAMBDA p : InSet(ts, p))

\* Every predecessor overwrites max_pred_end: the last one listed wins.
RECURSIVE max_pred_end_last(_, _, _)
max_pred_end_last(ts, preds, acc) ==
    IF preds = <<>> THEN acc
    ELSE LET pred_due == strptime(ts[Head(preds)].due_on)
         IN  IF ~pred_due.ok THEN [ok |-> FALSE, some |-> FALSE, day |-> 0]
             ELSE max_pred_end_last(ts, Tail(preds),
                                    [ok |-> TRUE, some |-> TRUE, day |-> pred_due.day])

\* for pred in preds: pred_due = strptime(...); max_pred_end = max(...).
\* [ok, some, day]: ok FALSE when a pred's due_on raised, some FALSE for None.
RECURSIVE max_pred_end(_, _, _)
max_pred_end(ts, preds, acc) ==
    IF preds = <<>> THEN acc
    ELSE LET pred_due == strptime(ts[Head(preds)].due_on)
         IN  IF ~pred_due.ok THEN [ok |-> FALSE, some |-> FALSE, day |-> 0]
             ELSE max_pred_end(ts, Tail(preds),
                     IF ~acc.some \/ pred_due.day > acc.day
                     THEN [ok |-> TRUE, some |-> TRUE, day |-> pred_due.day]
                     ELSE acc)

\* Lines 229-230: duration = count_business_days(...); if duration < 1: duration = 1
duration_of(current_start, current_due) ==
    LET duration == count_business_days(current_start, current_due)
    IN  IF duration < 1 THEN 1 ELSE duration

\* The weekend loop is missing: the task starts on max_pred_end as it is.
new_start_nosnap(m) == m.day

\* Lines 246-250: new_start = max_pred_end, moved past a weekend.
new_start_of(m) == snap_to_workday(m.day)

\* Only a task that starts before its latest predecessor's end is shifted.
needs_shift_push_only(current_start, m) == m.some /\ current_start < m.day

\* Line 244: if max_pred_end and current_start != max_pred_end
needs_shift(current_start, m) == m.some /\ current_start # m.day

\* Lines 221-261, the body of the forward pass for one gid:
\* <<task, modified>>; every exception of the try block leaves the task as it was.
recalibrate_task(ts, gid) ==
    LET task == ts[gid]
        current_start == strptime(task.start_on)
        current_due == strptime(task.due_on)
    IN  IF ~current_start.ok \/ ~current_due.ok THEN <<task, FALSE>>
        ELSE LET duration == duration_of(current_start.day, current_due.day)
                 m == max_pred_end(ts, preds_of(ts, gid),
                                   [ok |-> TRUE, some |-> FALSE, day |-> 0])
             IN  IF ~m.ok THEN <<task, FALSE>>
                 ELSE IF needs_shift(current_start.day, m)
                 THEN LET new_start == new_start_of(m)
                          new_due == add_business_days(new_start, duration - 1)
                      IN  <<[task EXCEPT !.start_on = strftime(new_start),
                                         !.due_on = strftime(new_due)], TRUE>>
                 ELSE <<task, FALSE>>

\* for gid in sorted_gids: ... : <<tasks, modified_tasks>>
RECURSIVE forward_pass(_, _, _)
forward_pass(ts, order, modified_tasks) ==
    IF order = <<>> THEN <<ts, modified_tasks>>
    ELSE LET gid == Head(order)
             r == recalibrate_task(ts, gid)
         IN  forward_pass([ts EXCEPT ![gid] = r[1]], Tail(order),
                          IF r[2] THEN Append(modified_tasks, gid) ELSE modified_tasks)

\* auto_recalibrate(tasks): <<tasks after the call, modified_tasks>>
auto_recalibrate(ts) == forward_pass(ts, sorted_gids(ts), <<>>)

\* The (start_on, due_on) pairs a fetched task carries: Fri-Fri (the start
\* loosely written), Wed-Thu of the next week, Sat-Sat and Mon-Mon.
RcWindows ==
    { <<DateStr("loose", 4), DateStr("iso", 4)>>,
      <<DateStr("iso", 9), DateStr("iso", 10)>>,
      <<DateStr("iso", 5), DateStr("iso", 5)>>,
      <<DateStr("iso", 7), DateStr("iso", 7)>> }

\* Dependency entries <<pred gid, succ gid>>, in the order the service lists them.
DepLists == UNION {[1..n -> TaskIds \X TaskIds] : n \in 0..MaxEdges}

RECURSIVE DepsOf(_, _)
DepsOf(deps, s) ==
    IF deps = <<>> THEN <<>>
    ELSE (IF Head(deps)[2] = s THEN <<Head(deps)[1]>> ELSE <<>>) \o DepsOf(Tail(deps), s)

InitRecal ==
    /\ \E w \in [TaskIds -> RcWindows], deps \in DepLists :
          rc_tasks = [g \in TaskIds |->
                        [gid |-> g, start_on |-> w[g][1], due_on |-> w[g][2],
                         dependencies |-> DepsOf(deps, g)]]
    /\ rc_input = rc_tasks
    /\ rc_result = <<>>
    /\ rc_pc = "call"
    /\ SchedIdle
    /\ CascadeIdle
    /\ BuildIdle
    /\ CalIdle
    /\ PollIdle

\* A task list as a caller may hand it to auto_recalibrate(tasks): a
\* dependency may name the gid MaxTasks + 1, which no task of the list
\* carries (a task of another project), and a start_on or due_on may be a
\* value strptime rejects.
RawWindows ==
    { <<DateStr("iso", 9), DateStr("iso", 10)>>,
      <<DateStr("bad", 0), DateStr("iso", 7)>>,
      <<DateStr("iso", 7), DateStr("bad", 0)>> }

RawDepLists == UNION {[1..n -> (1..(MaxTasks + 1)) \X TaskIds] : n \in 0..MaxEdges}

InitRecalRaw ==
    /\ \E w \in [TaskIds -> RawWindows], deps \in RawDepLists :
          rc_tasks = [g \in TaskIds |->
                        [gid |-> g, start_on |-> w[g][1], due_on |-> w[g][2],
                         dependencies |-> DepsOf(deps, g)]]
    /\ rc_input = rc_tasks
    /\ rc_result = <<>>
    /\ rc_pc = "call"
    /\ SchedIdle
    /\ CascadeIdle
    /\ BuildIdle
    /\ CalIdle
    /\ PollIdle

\* updates = auto_recalibrate(tasks)
AutoRecalibrate ==
    /\ rc_pc = "call"
    /\ rc_tasks # <<>>
    /\ LET r == auto_recalibrate(rc_tasks)
       IN  /\ rc_tasks' = r[1]
           /\ rc_result' = r[2]
    /\ rc_pc' = "returned"
    /\ UNCHANGED rc_input
    /\ UNCHANGED schedVars
    /\ UNCHANGED cascadeVars
    /\ UNCHANGED buildVars
    /\ UNCHANGED pollVars
    /\ UNCHANGED calVars

NextRecal == AutoRecalibrate

\* ------------------------------------- Cascade updater (date_logic.py)
\* The names bound in the module scope of date_logic.py: its imports
\* (lines 1-3) and the functions it defines. auto_recalibrate's
\* 'import collections' (line 184) binds a local name of that function only.
ModuleNames ==
    { "datetime", "timedelta", "List", "Dict", "Set", "ScheduledTask",
      "add_business_days", "count_business_days", "subtract_business_days_offset",
      "recalculate_dates", "auto_recalibrate" }

\* What a call leaves behind: the task dicts, the returned list (gids), and
\* whether an exception left the function instead of a return.
Outcome(ts, result, raised) == [tasks |-> ts, result |-> result, raised |-> raised]

\* The lookup of an absent gid fails with a KeyError.
not_found_raises(ts) == Outcome(ts, <<>>, TRUE)

\* Lines 59-60: if changed_task_gid not in task_db: return []
not_found(ts) == Outcome(ts, <<>>, FALSE)

\* The whole window is moved: the start follows the end.
apply_edit_shift(changed_task, new_end) ==
    [changed_task EXCEPT !.due_on = new_end, !.start_on = new_end]

\* Lines 72-73: changed_task['due_on'] = new_end_date_str
apply_edit(changed_task, new_end) == [changed_task EXCEPT !.due_on = new_end]

\* Lines 115-119: successors[pred_gid].append(gid), for gid in task order.
successors(ts, u) == graph_from(ts, u, 1)

\* Lines 138-175: for suc_gid in successors[current_gid]: ...
\* [tasks, result, queue, raised]; a date that does not parse raises.
RECURSIVE push_successors(_, _, _, _, _)
push_successors(ts, current_end_date, succs, modified_tasks, queue) ==
    IF succs = <<>>
    THEN [tasks |-> ts, result |-> modified_tasks, queue |-> queue, raised |-> FALSE]
    ELSE LET suc_gid == Head(succs)
             suc_task == ts[suc_gid]
             suc_start == strptime(suc_task.start_on)
             failed == [tasks |-> ts, result |-> modified_tasks, queue |-> queue,
                        raised |-> TRUE]
         IN  IF ~suc_start.ok THEN failed
             ELSE IF suc_start.day < current_end_date
             THEN LET suc_end == strptime(suc_task.due_on)
                  IN  IF ~suc_end.ok THEN failed
                      ELSE LET new_suc_start == current_end_date
                               duration == suc_end.day - suc_start.day
                               new_suc_end == new_suc_start + duration
                           IN  push_successors(
                                 [ts EXCEPT ![suc_gid] =
                                     [suc_task EXCEPT !.start_on = strftime(new_suc_start),
                                                      !.due_on = strftime(new_suc_end)]],
                                 current_end_date, Tail(succs),
                                 IF \E k \in DOMAIN modified_tasks : modified_tasks[k] = suc_gid
                                 THEN modified_tasks ELSE Append(modified_tasks, suc_gid),
                                 Append(queue, suc_gid))
             ELSE push_successors(ts, current_end_date, Tail(succs), modified_tasks, queue)

\* Lines 126-177: while queue: current_gid = queue.pop(0); ...; return modified_tasks
RECURSIVE propagate(_, _, _, _)
propagate(ts, queue, visited, modified_tasks) ==
    IF queue = <<>> THEN Outcome(ts, modified_tasks, FALSE)
    ELSE LET current_gid == Head(queue)
         IN  IF current_gid \in visited
             THEN propagate(ts, Tail(queue), visited, modified_tasks)
             ELSE LET current_end_date == strptime(ts[current_gid].due_on)
                  IN  IF ~current_end_date.ok THEN Outcome(ts, modified_tasks, TRUE)
                      ELSE LET r == push_successors(ts, current_end_date.day,
                                                    successors(ts, current_gid),
                                                    modified_tasks, Tail(queue))
                           IN  IF r.raised THEN Outcome(r.tasks, r.result, TRUE)
                               ELSE propagate(r.tasks, r.queue,
                                              visited \cup {current_gid}, r.result)

\* Every successor of the edited task is moved to the new end, whatever its
\* start, before the call is left.
recalculate_dates_push_all(ts, gid, new_end) ==
    IF ~InSet(ts, gid) THEN not_found(ts)
    ELSE IF \/ ~strptime(ts[gid].due_on).ok
            \/ ~strptime(new_end).ok
            \/ ~strptime(ts[gid].start_on).ok
    THEN Outcome(ts, <<>>, FALSE)
    ELSE Outcome([g \in DOMAIN ts |->
                    IF g = gid THEN apply_edit(ts[g], new_end)
                    ELSE IF \E k \in DOMAIN ts[g].dependencies : ts[g].dependencies[k] = gid
                    THEN [ts[g] EXCEPT !.start_on = strftime(strptime(new_end).day)]
                    ELSE ts[g]],
                 <<>>, "collections" \notin ModuleNames)

\* recalculate_dates(tasks, changed_task_gid, new_end_date_str), lines 52-177.
\* The try block (66-112) turns every parse failure into 'return []'; the
\* name 'collections' of line 115 is looked up outside it.
recalculate_dates(ts, gid, new_end) ==
    IF ~InSet(ts, gid) THEN not_found(ts)
    ELSE LET changed_task == ts[gid]
             old_end == strptime(changed_task.due_on)
             new_end_date == strptime(new_end)
         IN  IF ~old_end.ok \/ ~new_end_date.ok THEN Outcome(ts, <<>>, FALSE)
             ELSE LET edited == [ts EXCEPT ![gid] = apply_edit(changed_task, new_end)]
                      old_start == strptime(changed_task.start_on)
                  IN  IF ~old_start.ok THEN Outcome(edited, <<>>, FALSE)
                      ELSE IF "collections" \notin ModuleNames
                      THEN Outcome(edited, <<>>, TRUE)
                      ELSE propagate(edited, <<gid>>, {}, <<gid>>)

\* The (start_on, due_on) pairs of the tasks of a project: Wed-Thu, and
\* Mon-Tue two weeks later; the edited task may also carry a start_on or a
\* due_on that strptime rejects.
CascadeWindows ==
    { <<DateStr("iso", 2), DateStr("iso", 3)>>,
      <<DateStr("iso", 14), DateStr("iso", 15)>> }

EditedWindows ==
    CascadeWindows \cup { <<DateStr("bad", 0), DateStr("iso", 3)>>,
                          <<DateStr("iso", 2), DateStr("bad", 0)>> }

\* The new end dates of a request: the Saturday of the second week loosely
\* written, the Monday after it (the day the later window starts), the
\* Tuesday of the first week, and a string strptime rejects.
NewEnds == { DateStr("loose", 12), DateStr("iso", 14), DateStr("iso", 1), DateStr("bad", 0) }

\* The edited task is the first of the fetched list, or is not in it.
InitCascade ==
    /\ \E w \in [TaskIds \ {1} -> CascadeWindows], x \in EditedWindows, deps \in DepLists :
          rd_tasks = [g \in TaskIds |->
                        [gid |-> g,
                         start_on |-> IF g = 1 THEN x[1] ELSE w[g][1],
                         due_on |-> IF g = 1 THEN x[2] ELSE w[g][2],
                         dependencies |-> DepsOf(deps, g)]]
    /\ rd_input = rd_tasks
    /\ changed_task_gid \in {1, MaxTasks + 1}
    /\ new_end_date_str \in NewEnds
    /\ rd_result = <<>>
    /\ rd_pc = "call"
    /\ SchedIdle
    /\ RecalIdle
    /\ BuildIdle
    /\ CalIdle
    /\ PollIdle

\* modified_tasks = recalculate_dates(tasks, request.task_gid, request.new_end_date)
RecalculateDates ==
    /\ rd_pc = "call"
    /\ rd_tasks # <<>>
    /\ LET r == recalculate_dates(rd_tasks, changed_task_gid, new_end_date_str)
       IN  /\ rd_tasks' = r.tasks
           /\ rd_result' = r.result
           /\ rd_pc' = IF r.raised THEN "raised" ELSE "returned"
    /\ UNCHANGED <<rd_input, changed_task_gid, new_end_date_str>>
    /\ UNCHANGED schedVars
    /\ UNCHANGED recalVars
    /\ UNCHANGED buildVars
    /\ UNCHANGED pollVars
    /\ UNCHANGED calVars

NextCascade == RecalculateDates

\* ------------------------------------------ Task graph builder (services.py)
\* Task ids: "row_<n>" as the ingestion assigns them (main.py line 200), and
\* "auto_<name>_<section>" as resolve_successor derives them.
RowId(n) == [kind |-> "row", n |-> n, name |-> "", sec |-> ""]

AutoId(safe_name, safe_sec) == [kind |-> "auto", n |-> 0, name |-> safe_name, sec |-> safe_sec]

\* section=None
NoSection == "None"

Sections == {NoSection, "Design", "Legal"}

\* The successor names the rows reference (column 'Triggers').
Names == {"Review", "review"}

\* The names the rows carry themselves: one that the references match, one
\* that no reference matches.
RowNames == {"Review", "Kickoff"}

\* 'if pred_section' / 'if not task.get('section')': None is falsy.
TruthySection(section) == section # NoSection

\* 'if not selected_succ_id': None is falsy, a "row_..." or "auto_..." id is not.
TruthyId(task_id) == task_id # NoId

\* str.lower()
lower(name) == CASE name = "Review" -> "review"
                 [] name = "Re-view" -> "re-view"
                 [] OTHER -> name

\* "".join(c for c in s if c.isalnum())
alnum(s) == CASE s = "Re-view" -> "Review"
              [] s = "re-view" -> "review"
              [] OTHER -> s

\* task_id in self.tasks
HasTask(ts, task_id) == \E k \in DOMAIN ts : ts[k].id = task_id

\* self.tasks[task_id] / self.tasks.get(task_id)
TaskOf(ts, task_id) == ts[CHOOSE k \in DOMAIN ts : ts[k].id = task_id]

\* self.tasks_by_name.get(name, [])
ids_by_name(tbn, name) ==
    IF \E k \in DOMAIN tbn : tbn[k].name = name
    THEN tbn[CHOOSE k \in DOMAIN tbn : tbn[k].name = name].ids
    ELSE <<>>

\* self.tasks_by_name[name].append(task_id)
name_index_append(tbn, name, task_id) ==
    IF \E k \in DOMAIN tbn : tbn[k].name = name
    THEN [k \in DOMAIN tbn |->
            IF tbn[k].name = name THEN [tbn[k] EXCEPT !.ids = Append(@, task_id)] ELSE tbn[k]]
    ELSE Append(tbn, [name |-> name, ids |-> <<task_id>>])

\* An add_task that refreshes name and section of a task it already holds.
add_task_refresh(g, task_id, name, section) ==
    IF ~HasTask(g.tasks, task_id)
    THEN [g EXCEPT !.tasks = Append(@, [id |-> task_id, name |-> name, section |-> section]),
                   !.tasks_by_name = name_index_append(@, name, task_id)]
    ELSE [g EXCEPT !.tasks = [k \in DOMAIN @ |->
                                IF @[k].id = task_id
                                THEN [id |-> task_id, name |-> name, section |-> section]
                                ELSE @[k]]]

\* add_task(task_id, name, section): the graph [tasks, tasks_by_name] after it.
add_task(g, task_id, name, section) ==
    IF ~HasTask(g.tasks, task_id)
    THEN [g EXCEPT !.tasks = Append(@, [id |-> task_id, name |-> name, section |-> section]),
                   !.tasks_by_name = name_index_append(@, name, task_id)]
    ELSE g

\* Lines 72-77: the ids of the first name of the index that matches when
\* case is ignored.
RECURSIVE case_insensitive(_, _)
case_insensitive(tbn, successor_name_lower) ==
    IF tbn = <<>> THEN <<>>
    ELSE IF lower(Head(tbn).name) = successor_name_lower THEN Head(tbn).ids
    ELSE case_insensitive(Tail(tbn), successor_name_lower)

\* The first candidate is taken, whatever its section.
same_section_first(ts, candidates, pred_section) ==
    IF candidates = <<>> THEN NoId ELSE Head(candidates)

\* Lines 84-88: for cand_id in candidates: if section == pred_section: ...; break
RECURSIVE same_section(_, _, _)
same_section(ts, candidates, pred_section) ==
    IF candidates = <<>> THEN NoId
    ELSE IF TaskOf(ts, Head(candidates)).section = pred_section THEN Head(candidates)
    ELSE same_section(ts, Tail(candidates), pred_section)

\* Lines 82-92: the candidate picked, or None.
select_candidate(ts, candidates, pred_section) ==
    IF candidates # <<>>
    THEN LET in_section == IF TruthySection(pred_section)
                           THEN same_section(ts, candidates, pred_section)
                           ELSE NoId
         IN  IF ~TruthyId(in_section) THEN Head(candidates) ELSE in_section
    ELSE NoId

\* The edge is entered in reverse_adjacency under the predecessor.
record_edge_swapped(g, predecessor_id, selected_succ_id, lag_days) ==
    [g EXCEPT !.adjacency = Append(@, <<predecessor_id, selected_succ_id, lag_days>>),
              !.reverse_adjacency = Append(@, <<predecessor_id, selected_succ_id, lag_days>>)]

\* Lines 101-102: self.adjacency[predecessor_id].append((selected_succ_id, lag_days))
\*                self.reverse_adjacency[selected_succ_id].append((predecessor_id, lag_days))
record_edge(g, predecessor_id, selected_succ_id, lag_days) ==
    [g EXCEPT !.adjacency = Append(@, <<predecessor_id, selected_succ_id, lag_days>>),
              !.reverse_adjacency = Append(@, <<selected_succ_id, predecessor_id, lag_days>>)]

\* resolve_successor(predecessor_id, successor_name, lag_days):
\* [g, returned], g the graph [tasks, tasks_by_name, adjacency, reverse_adjacency].
resolve_successor(g, predecessor_id, successor_name, lag_days) ==
    IF ~HasTask(g.tasks, predecessor_id) THEN [g |-> g, returned |-> NoId]
    ELSE LET exact == ids_by_name(g.tasks_by_name, successor_name)
             candidates == IF exact = <<>>
                           THEN case_insensitive(g.tasks_by_name, lower(successor_name))
                           ELSE exact
             pred_section == TaskOf(g.tasks, predecessor_id).section
             picked == select_candidate(g.tasks, candidates, pred_section)
             new_id == AutoId(alnum(successor_name),
                              alnum(IF TruthySection(pred_section) THEN pred_section ELSE "general"))
             g1 == IF ~TruthyId(picked)
                   THEN add_task(g, new_id, successor_name, pred_section)
                   ELSE g
             selected_succ_id == IF ~TruthyId(picked) THEN new_id ELSE picked
         IN  [g |-> record_edge(g1, predecessor_id, selected_succ_id, lag_days),
              returned |-> selected_succ_id]

\* The Scheduler being built, as one record.
Graph == [tasks |-> b_tasks, tasks_by_name |-> tasks_by_name,
          adjacency |-> adjacency, reverse_adjacency |-> b_reverse_adjacency]

RowCount == Cardinality({k \in DOMAIN b_tasks : b_tasks[k].id.kind = "row"})

InitBuild ==
    /\ BuildIdle
    /\ CalIdle
    /\ SchedIdle
    /\ RecalIdle
    /\ CascadeIdle
    /\ PollIdle

\* schedule_tasks, first pass: scheduler.add_task(t.id, t.name, section=t.section)
\* for the next row of the request, or once more for a row already added.
AddTask ==
    /\ resolve_calls = 0
    /\ ~b_inherit.done
    /\ \E n \in 1..(RowCount + 1), name \in RowNames, section \in Sections :
          /\ n <= MaxTasks
          /\ LET g == add_task(Graph, RowId(n), name, section)
             IN  /\ b_tasks' = g.tasks
                 /\ tasks_by_name' = g.tasks_by_name
          /\ b_add' = [task_id |-> RowId(n), name |-> name, section |-> section,
                       tasks |-> b_tasks, tasks_by_name |-> tasks_by_name]
    /\ UNCHANGED <<adjacency, b_reverse_adjacency, b_call, b_prev, resolve_calls, b_inherit>>
    /\ UNCHANGED schedVars
    /\ UNCHANGED recalVars
    /\ UNCHANGED cascadeVars
    /\ UNCHANGED pollVars
    /\ UNCHANGED calVars

\* schedule_tasks, second pass:
\* succ_id = scheduler.resolve_successor(predecessor_id=t.id, successor_name=trig_name, lag_days=0)
ResolveSuccessor ==
    /\ resolve_calls < MaxEdges
    /\ ~b_inherit.done
    /\ b_tasks # <<>>
    /\ \E predecessor_id \in {b_tasks[k].id : k \in DOMAIN b_tasks} \cup {RowId(MaxTasks + 1)},
          successor_name \in Names :
          LET r == resolve_successor(Graph, predecessor_id, successor_name, 0)
          IN  /\ b_tasks' = r.g.tasks
              /\ tasks_by_name' = r.g.tasks_by_name
              /\ adjacency' = r.g.adjacency
              /\ b_reverse_adjacency' = r.g.reverse_adjacency
              /\ b_call' = [predecessor_id |-> predecessor_id,
                            successor_name |-> successor_name, returned |-> r.returned]
    /\ b_prev' = b_tasks
    /\ resolve_calls' = resolve_calls + 1
    /\ b_add' = NoAdd
    /\ UNCHANGED b_inherit
    /\ UNCHANGED schedVars
    /\ UNCHANGED recalVars
    /\ UNCHANGED cascadeVars
    /\ UNCHANGED pollVars
    /\ UNCHANGED calVars

\* self.reverse_adjacency[t_id]: the predecessor ids of the edges into t_id,
\* in the order they were appended.
RECURSIVE incoming_preds(_, _)
incoming_preds(radj, t_id) ==
    IF radj = <<>> THEN <<>>
    ELSE (IF Head(radj)[1] = t_id THEN <<Head(radj)[2]>> ELSE <<>>)
            \o incoming_preds(Tail(radj), t_id)

\* The section of the first predecessor is taken, whatever it is.
first_pred_section_any(ts, preds) ==
    IF preds = <<>> THEN NoSection ELSE TaskOf(ts, Head(preds)).section

\* Lines 110-114: for pred_id, _ in preds: pred_sec = ...; if pred_sec: ...; break
RECURSIVE first_pred_section(_, _)
first_pred_section(ts, preds) ==
    IF preds = <<>> THEN NoSection
    ELSE LET pred_sec == IF HasTask(ts, Head(preds))
                         THEN TaskOf(ts, Head(preds)).section
                         ELSE NoSection
         IN  IF TruthySection(pred_sec) THEN pred_sec
             ELSE first_pred_section(ts, Tail(preds))

\* Lines 107-114 for the tasks from position k on, each one seeing the
\* sections the tasks before it have been given.
RECURSIVE inherit_from(_, _, _)
inherit_from(ts, radj, k) ==
    IF k > Len(ts) THEN ts
    ELSE IF ~TruthySection(ts[k].section)
         THEN LET pred_sec == first_pred_section(ts, incoming_preds(radj, ts[k].id))
              IN  inherit_from(IF TruthySection(pred_sec)
                               THEN [ts EXCEPT ![k].section = pred_sec]
                               ELSE ts,
                               radj, k + 1)
         ELSE inherit_from(ts, radj, k + 1)

\* inherit_missing_sections(): Scheduler.tasks after the pass.
inherit_missing_sections(ts, radj) == inherit_from(ts, radj, 1)

\* schedule_tasks, after the second pass: scheduler.inherit_missing_sections()
InheritMissingSections ==
    /\ ~b_inherit.done
    /\ b_tasks # <<>>
    /\ b_tasks' = inherit_missing_sections(b_tasks, b_reverse_adjacency)
    /\ b_inherit' = [done |-> TRUE, tasks |-> b_tasks]
    /\ b_add' = NoAdd
    /\ UNCHANGED <<tasks_by_name, adjacency, b_reverse_adjacency, b_call, b_prev, resolve_calls>>
    /\ UNCHANGED schedVars
    /\ UNCHANGED recalVars
    /\ UNCHANGED cascadeVars
    /\ UNCHANGED pollVars
    /\ UNCHANGED calVars

NextBuild == AddTask \/ ResolveSuccessor \/ InheritMissingSections

\* ------------------------------------------ History store (database.py)
\* No row of task_history has the gid.
NoRecord == [exists |-> FALSE, expected_start |-> 0, expected_end |-> 0,
             actual_start |-> 0, actual_end |-> 0]

\* The table after init_db().
EmptyHistory == [g \in TaskIds |-> NoRecord]

\* TaskHistory(gid, expected_start=..., expected_end=..., actual_start=..., actual_end=...)
new_record(start, end) ==
    [exists |-> TRUE, expected_start |-> start, expected_end |-> end,
     actual_start |-> start, actual_end |-> end]

\* The record is rewritten as a whole from the current dates.
update_record_rebase(record, current_start, current_end) ==
    IF record.actual_start # current_start \/ record.actual_end # current_end
    THEN new_record(current_start, current_end)
    ELSE record

\* update_actuals lines 117-126: 'if record:' branch.
update_record(record, current_start, current_end) ==
    IF record.actual_start # current_start \/ record.actual_end # current_end
    THEN [record EXCEPT !.actual_start = current_start, !.actual_end = current_end]
    ELSE record

\* update_actuals lines 112-139: the for loop, [ok, h]; ok is FALSE when a
\* strptime raised.
RECURSIVE update_loop(_, _)
update_loop(h, tasks_data) ==
    IF tasks_data = <<>> THEN [ok |-> TRUE, h |-> h]
    ELSE LET t == Head(tasks_data)
             current_start == strptime(t.start_on)
             current_end == strptime(t.due_on)
         IN  IF t.gid = 0 THEN update_loop(h, Tail(tasks_data))
             ELSE IF ~current_start.ok \/ ~current_end.ok THEN [ok |-> FALSE, h |-> h]
             ELSE update_loop(
                    [h EXCEPT ![t.gid] =
                        IF @.exists THEN update_record(@, current_start.day, current_end.day)
                        ELSE new_record(current_start.day, current_end.day)],
                    Tail(tasks_data))

\* update_actuals(tasks_data) with a session: the table after commit, or
\* after rollback when the loop raised.
update_actuals(h, tasks_data) ==
    LET r == update_loop(h, tasks_data)
    IN  IF r.ok THEN r.h ELSE h

\* save_baseline lines 73-90: the for loop, [ok, h].
RECURSIVE baseline_loop(_, _)
baseline_loop(h, tasks_data) ==
    IF tasks_data = <<>> THEN [ok |-> TRUE, h |-> h]
    ELSE LET t == Head(tasks_data)
             start == strptime(t.start_on)
             end == strptime(t.due_on)
         IN  IF ~start.ok \/ ~end.ok THEN [ok |-> FALSE, h |-> h]
             ELSE baseline_loop([h EXCEPT ![t.gid] = new_record(start.day, end.day)],
                                Tail(tasks_data))

\* save_baseline(tasks_data) with a session: the table after commit, or after
\* rollback.
save_baseline(h, tasks_data) ==
    LET r == baseline_loop(h, tasks_data)
    IN  IF r.ok THEN r.h ELSE h

\* run_in_threadpool(f, ...) called without await in a plain 'def': the call
\* builds a coroutine object that nothing runs, so f is never called and the
\* table stays as it was before.
never_awaited(after, before) == before

\* ------------------------------------------- remote service (AsanaManager)
\* The (start_on, due_on) pairs of a task in the remote service: Sat-Sat and
\* Wed-Thu of the next week.
PollWindows ==
    { <<DateStr("iso", 5), DateStr("iso", 5)>>,
      <<DateStr("iso", 9), DateStr("iso", 10)>> }

\* The dependencies of a project: <<pred gid, succ gid>> pairs.
PollPairs == {e \in TaskIds \X TaskIds : e[1] # e[2]}

PollDepSets == {E \in SUBSET PollPairs : Cardinality(E) <= MaxEdges}

\* The predecessors of s among p..MaxTasks, in the order the service lists them.
RECURSIVE DepsIn(_, _, _)
DepsIn(E, s, p) ==
    IF p > MaxTasks THEN <<>>
    ELSE (IF <<p, s>> \in E THEN <<p>> ELSE <<>>) \o DepsIn(E, s, p + 1)

\* fetch_project_tasks() / _parse_task: every task of the project carries
\* both dates, so no date is replaced by today's.
parse_task(api_task) ==
    [gid |-> api_task.gid, start_on |-> api_task.start_on, due_on |-> api_task.due_on,
     dependencies |-> api_task.dependencies]

fetch_project_tasks(ts) == [k \in DOMAIN ts |-> parse_task(ts[k])]

\* update_task_dates(task_gid, start_on, due_on), accepted by the service.
update_task_dates(ts, task_gid, start_on, due_on) ==
    [ts EXCEPT ![task_gid] = [@ EXCEPT !.start_on = start_on, !.due_on = due_on]]

\* ------------------------------------- background_poller (main.py 45-81)
\* One entry of cycle_log.
Call(op, gid, ok) == [op |-> op, gid |-> gid, ok |-> ok]

\* The exception ends the loop.
after_exception_crash(step) == "crashed"

\* Lines 78-81: 'except Exception as e: print(...)', then the sleep.
after_exception(step) == "sleep"

\* The last update of the list is pushed first.
next_update_last(pending) == Len(pending)

\* Line 71: 'for t in updates:' takes the updates from the front.
next_update(pending) == 1

\* pending without its k-th element.
Without(pending, k) == SubSeq(pending, 1, k - 1) \o SubSeq(pending, k + 1, Len(pending))

\* The credentials a start-polling request carries; the startup hook and
\* start_polling turn the active flag on with them (lines 88-89, 96-98).
AsanaConfig == [active |-> TRUE, pat |-> "pat", project_gid |-> "project"]

\* Line 48: polling_config["active"] and polling_config["pat"]
\*          and polling_config["project_gid"]
polling_on(config) == config.active /\ config.pat # "" /\ config.project_gid # ""

InitPoll ==
    /\ \E w \in [TaskIds -> PollWindows], E \in PollDepSets :
          asana_tasks = [g \in TaskIds |->
                           [gid |-> g, start_on |-> w[g][1], due_on |-> w[g][2],
                            dependencies |-> DepsIn(E, g, 1)]]
    /\ history = EmptyHistory
    /\ sync_request = <<>>
    /\ p_pc = "fetch"
    /\ p_tasks = <<>>
    /\ p_fetched = <<>>
    /\ updates = <<>>
    /\ to_push = <<>>
    /\ cycle_log = <<>>
    /\ ext_edited = FALSE
    /\ last_cycle = "none"
    /\ polling_config = AsanaConfig
    /\ stop_mark = -1
    /\ SchedIdle
    /\ RecalIdle
    /\ CascadeIdle
    /\ BuildIdle
    /\ CalIdle

\* Line 54: tasks = await run_in_threadpool(manager.fetch_project_tasks)
PollFetch ==
    /\ p_pc = "fetch"
    /\ polling_on(polling_config)
    /\ p_tasks' = fetch_project_tasks(asana_tasks)
    /\ p_fetched' = p_tasks'
    /\ cycle_log' = <<Call("fetch", 0, TRUE)>>
    /\ p_pc' = "reconcile"
    /\ UNCHANGED <<asana_tasks, history, sync_request, updates, to_push, ext_edited, last_cycle>>
    /\ UNCHANGED <<polling_config, stop_mark>>
    /\ UNCHANGED <<schedVars, recalVars, cascadeVars, buildVars, calVars>>

\* Line 54, fetch_project_tasks raising 'Fetch Failed'.
PollFetchFails ==
    /\ p_pc = "fetch"
    /\ polling_on(polling_config)
    /\ cycle_log' = <<Call("fetch", 0, FALSE)>>
    /\ p_pc' = after_exception("fetch")
    /\ last_cycle' = "fetch failed"
    /\ UNCHANGED <<asana_tasks, history, sync_request, p_tasks, p_fetched, updates, to_push,
                   ext_edited>>
    /\ UNCHANGED <<polling_config, stop_mark>>
    /\ UNCHANGED <<schedVars, recalVars, cascadeVars, buildVars, calVars>>

\* Line 58: updates = auto_recalibrate(tasks), which rewrites the dicts of
\* 'tasks' in place.
PollReconcile ==
    /\ p_pc = "reconcile"
    /\ LET r == auto_recalibrate(p_tasks)
       IN  /\ p_tasks' = r[1]
           /\ updates' = r[2]
           /\ to_push' = r[2]
    /\ cycle_log' = Append(cycle_log, Call("reconcile", 0, TRUE))
    /\ p_pc' = "persist"
    /\ UNCHANGED <<asana_tasks, history, sync_request, p_fetched, ext_edited, last_cycle>>
    /\ UNCHANGED <<polling_config, stop_mark>>
    /\ UNCHANGED <<schedVars, recalVars, cascadeVars, buildVars, calVars>>

\* Where the loop goes after the history write (lines 69-76).
AfterPersist ==
    /\ p_pc' = IF updates # <<>> THEN "push" ELSE "sleep"
    /\ last_cycle' = IF updates # <<>> THEN last_cycle ELSE "complete"

\* Lines 63-64: await run_in_threadpool(update_actuals, tasks), committed.
PollPersist ==
    /\ p_pc = "persist"
    /\ history' = update_actuals(history, p_tasks)
    /\ cycle_log' = Append(cycle_log, Call("persist", 0, TRUE))
    /\ AfterPersist
    /\ UNCHANGED <<asana_tasks, sync_request, p_tasks, p_fetched, updates, to_push, ext_edited>>
    /\ UNCHANGED <<polling_config, stop_mark>>
    /\ UNCHANGED <<schedVars, recalVars, cascadeVars, buildVars, calVars>>

\* Lines 63-66 with no session, with a rollback inside update_actuals, or
\* with an exception that 'except Exception as db_e' catches.
PollPersistFails ==
    /\ p_pc = "persist"
    /\ cycle_log' = Append(cycle_log, Call("persist", 0, FALSE))
    /\ AfterPersist
    /\ UNCHANGED <<asana_tasks, history, sync_request, p_tasks, p_fetched, updates, to_push,
                   ext_edited>>
    /\ UNCHANGED <<polling_config, stop_mark>>
    /\ UNCHANGED <<schedVars, recalVars, cascadeVars, buildVars, calVars>>

\* Lines 71-72: one turn of 'for t in updates:', the service accepting
\* update_task_dates(t['gid'], t['start_on'], t['due_on']).
PollPush ==
    /\ p_pc = "push"
    /\ LET k == next_update(to_push)
           gid == to_push[k]
       IN  /\ asana_tasks' = update_task_dates(asana_tasks, gid, p_tasks[gid].start_on,
                                               p_tasks[gid].due_on)
           /\ cycle_log' = Append(cycle_log, Call("push", gid, TRUE))
           /\ to_push' = Without(to_push, k)
    /\ p_pc' = IF to_push' = <<>> THEN "sleep" ELSE "push"
    /\ last_cycle' = IF to_push' = <<>> THEN "complete" ELSE last_cycle
    /\ UNCHANGED <<history, sync_request, p_tasks, p_fetched, updates, ext_edited>>
    /\ UNCHANGED <<polling_config, stop_mark>>
    /\ UNCHANGED <<schedVars, recalVars, cascadeVars, buildVars, calVars>>

\* Lines 71-72 with update_task_dates raising 'Failed to update task'.
PollPushFails ==
    /\ p_pc = "push"
    /\ LET k == next_update(to_push)
       IN  cycle_log' = Append(cycle_log, Call("push", to_push[k], FALSE))
    /\ p_pc' = after_exception("push")
    /\ last_cycle' = "push failed"
    /\ UNCHANGED <<asana_tasks, history, sync_request, p_tasks, p_fetched, updates, to_push,
                   ext_edited>>
    /\ UNCHANGED <<polling_config, stop_mark>>
    /\ UNCHANGED <<schedVars, recalVars, cascadeVars, buildVars, calVars>>

\* Line 81: await asyncio.sleep(polling_config["interval"]), then the next
\* turn of 'while True'.
PollSleep ==
    /\ p_pc = "sleep"
    /\ p_pc' = "fetch"
    /\ p_tasks' = <<>>
    /\ p_fetched' = <<>>
    /\ updates' = <<>>
    /\ to_push' = <<>>
    /\ cycle_log' = <<>>
    /\ stop_mark' = IF stop_mark >= 0 THEN 0 ELSE stop_mark
    /\ UNCHANGED <<asana_tasks, history, sync_request, ext_edited, last_cycle, polling_config>>
    /\ UNCHANGED <<schedVars, recalVars, cascadeVars, buildVars, calVars>>

\* The window a user of the remote service drags a task to: Sat-Sat.
EditWindow == <<DateStr("iso", 5), DateStr("iso", 5)>>

\* A user of the remote service moves a task while the poller sleeps.
ThirdPartyEdit ==
    /\ p_pc = "sleep"
    /\ ~ext_edited
    /\ \E g \in TaskIds :
          /\ <<asana_tasks[g].start_on, asana_tasks[g].due_on>> # EditWindow
          /\ asana_tasks' = update_task_dates(asana_tasks, g, EditWindow[1], EditWindow[2])
    /\ ext_edited' = TRUE
    /\ last_cycle' = "none"
    /\ UNCHANGED <<history, sync_request, p_pc, p_tasks, p_fetched, updates, to_push, cycle_log>>
    /\ UNCHANGED <<polling_config, stop_mark>>
    /\ UNCHANGED <<schedVars, recalVars, cascadeVars, buildVars, calVars>>

NextPoll ==
    \/ PollFetch
    \/ PollFetchFails
    \/ PollReconcile
    \/ PollPersist
    \/ PollPersistFails
    \/ PollPush
    \/ PollPushFails
    \/ PollSleep
    \/ ThirdPartyEdit

\* ------------------------------------------ sync_asana (main.py 264-366)
\* request.tasks of a /sync-asana call: the planned dates and the
\* predecessor ids of every task.
InitSync ==
    /\ \E w \in [TaskIds -> PollWindows], E \in PollDepSets :
          sync_request = [t \in TaskIds |->
                            [id |-> t, start_date |-> w[t][1], end_date |-> w[t][2],
                             dependencies |-> DepsIn(E, t, 1)]]
    /\ asana_tasks = <<>>
    /\ history = EmptyHistory
    /\ p_pc = "sync"
    /\ p_tasks = <<>>
    /\ p_fetched = <<>>
    /\ updates = <<>>
    /\ to_push = <<>>
    /\ cycle_log = <<>>
    /\ ext_edited = FALSE
    /\ last_cycle = "none"
    /\ polling_config = AsanaConfig
    /\ stop_mark = -1
    /\ SchedIdle
    /\ RecalIdle
    /\ CascadeIdle
    /\ BuildIdle
    /\ CalIdle

\* manager.task_registry.get(id): the gid the service gave the task, the
\* gids being handed out in the order of creation; 0 for None.
registry(created, id) ==
    IF id \in created THEN Cardinality({c \in created : c <= id}) ELSE 0

\* Lines 340-345: the predecessors linked to a task, 'linked' being the
\* <<pred id, succ id>> pairs whose link_dependency call the service accepted.
RECURSIVE linked_preds(_, _, _, _)
linked_preds(created, linked, id, dependencies) ==
    IF dependencies = <<>> THEN <<>>
    ELSE (IF Head(dependencies) \in created /\ <<Head(dependencies), id>> \in linked
          THEN <<registry(created, Head(dependencies))>> ELSE <<>>)
         \o linked_preds(created, linked, id, Tail(dependencies))

\* Lines 284-325: the tasks the service holds after the creation loop and
\* the linking loop, by gid.
created_tasks(request, created, linked) ==
    [gid \in 1..Cardinality(created) |->
        LET t == request[CHOOSE id \in created : registry(created, id) = gid]
        IN  [gid |-> gid, start_on |-> t.start_date, due_on |-> t.end_date,
             dependencies |-> linked_preds(created, linked, t.id, t.dependencies)]]

\* Lines 319-324: baseline_tasks
baseline_tasks(request, created) ==
    [gid \in 1..Cardinality(created) |->
        LET t == request[CHOOSE id \in created : registry(created, id) = gid]
        IN  [gid |-> gid, start_on |-> t.start_date, due_on |-> t.end_date]]

\* The <<pred id, succ id>> pairs the linking loop asks the service to link.
LinkCalls(request, created) ==
    {e \in created \X created :
        \E k \in DOMAIN request[e[2]].dependencies : request[e[2]].dependencies[k] = e[1]}

\* sync_asana(request): create_task_with_dates returns None for the tasks
\* outside 'created'; link_dependency fails for the pairs outside 'linked'.
SyncAsana ==
    /\ p_pc = "sync"
    /\ \E created \in SUBSET TaskIds :
          \E linked \in SUBSET LinkCalls(sync_request, created) :
             /\ asana_tasks' = created_tasks(sync_request, created, linked)
             /\ history' = never_awaited(
                              save_baseline(history, baseline_tasks(sync_request, created)),
                              history)
    /\ p_pc' = "synced"
    /\ UNCHANGED <<sync_request, p_tasks, p_fetched, updates, to_push, cycle_log, ext_edited,
                   last_cycle>>
    /\ UNCHANGED <<polling_config, stop_mark>>
    /\ UNCHANGED <<schedVars, recalVars, cascadeVars, buildVars, calVars>>

NextSync == SyncAsana

\* ------------------------------------- start and stop requests (main.py)
\* The poller runs for the project the credentials name, as after a startup
\* with stored credentials or a start-polling request.
InitStop ==
    /\ \E w \in [TaskIds -> PollWindows], E \in PollDepSets :
          asana_tasks = [g \in TaskIds |->
                           [gid |-> g, start_on |-> w[g][1], due_on |-> w[g][2],
                            dependencies |-> DepsIn(E, g, 1)]]
    /\ history = EmptyHistory
    /\ sync_request = <<>>
    /\ p_pc = "fetch"
    /\ p_tasks = <<>>
    /\ p_fetched = <<>>
    /\ updates = <<>>
    /\ to_push = <<>>
    /\ cycle_log = <<>>
    /\ ext_edited = FALSE
    /\ last_cycle = "none"
    /\ polling_config = AsanaConfig
    /\ stop_mark = -1
    /\ SchedIdle
    /\ RecalIdle
    /\ CascadeIdle
    /\ BuildIdle
    /\ CalIdle

\* The poller is suspended in one of its awaits, where a request handler,
\* having no await of its own, runs to its end: the fetch of line 54 (the
\* call has been issued, the reconciliation comes next), the history write
\* of line 64 or a push of line 72 (a push or the sleep comes next), or the
\* sleep of line 81.
AtAwait == p_pc \in {"reconcile", "push", "sleep"}

\* Lines 47-48 and 81 with the test of line 48 false: the turn of the loop
\* goes straight to the sleep.
PollSkip ==
    /\ p_pc = "fetch"
    /\ ~polling_on(polling_config)
    /\ p_pc' = "sleep"
    /\ UNCHANGED <<asana_tasks, history, sync_request, p_tasks, p_fetched, updates, to_push,
                   cycle_log, ext_edited, last_cycle, polling_config, stop_mark>>
    /\ UNCHANGED <<schedVars, recalVars, cascadeVars, buildVars, calVars>>

\* stop_polling, lines 103-108.
StopPolling ==
    /\ AtAwait
    /\ polling_config' = [polling_config EXCEPT !.active = FALSE]
    /\ stop_mark' = IF stop_mark >= 0 THEN stop_mark ELSE Len(cycle_log)
    /\ UNCHANGED <<asana_tasks, history, sync_request, p_pc, p_tasks, p_fetched, updates,
                   to_push, cycle_log, ext_edited, last_cycle>>
    /\ UNCHANGED <<schedVars, recalVars, cascadeVars, buildVars, calVars>>

\* start_polling, lines 94-101.
StartPolling ==
    /\ AtAwait
    /\ polling_config' = AsanaConfig
    /\ stop_mark' = -1
    /\ UNCHANGED <<asana_tasks, history, sync_request, p_pc, p_tasks, p_fetched, updates,
                   to_push, cycle_log, ext_edited, last_cycle>>
    /\ UNCHANGED <<schedVars, recalVars, cascadeVars, buildVars, calVars>>

NextStop ==
    \/ PollFetch
    \/ PollFetchFails
    \/ PollReconcile
    \/ PollPersist
    \/ PollPersistFails
    \/ PollPush
    \/ PollPushFails
    \/ PollSleep
    \/ PollSkip
    \/ StopPolling
    \/ StartPolling

\* ------------------------------------------- Calendar (date_logic.py)
InitCalendar ==
    /\ cal_from \in CalendarDays
    /\ cal_days \in 0..MaxDays
    /\ cal_end = 0
    /\ cal_count = 0
    /\ cal_pc = "add"
    /\ SchedIdle
    /\ RecalIdle
    /\ CascadeIdle
    /\ BuildIdle
    /\ PollIdle

\* end = add_business_days(from_date, days_to_add)
AddBusinessDays ==
    /\ cal_pc = "add"
    /\ cal_end' = add_business_days(cal_from, cal_days)
    /\ cal_pc' = "count"
    /\ UNCHANGED <<cal_from, cal_days, cal_count>>
    /\ UNCHANGED <<schedVars, recalVars, cascadeVars, buildVars, pollVars>>

\* count_business_days(from_date, end)
CountBusinessDays ==
    /\ cal_pc = "count"
    /\ cal_count' = count_business_days(cal_from, cal_end)
    /\ cal_pc' = "counted"
    /\ UNCHANGED <<cal_from, cal_days, cal_end>>
    /\ UNCHANGED <<schedVars, recalVars, cascadeVars, buildVars, pollVars>>

NextCalendar == AddBusinessDays \/ CountBusinessDays

Spec == InitSched /\ [][NextSched]_vars

SpecRecal == InitRecal /\ [][NextRecal]_vars

SpecRecalRaw == InitRecalRaw /\ [][NextRecal]_vars

SpecCascade == InitCascade /\ [][NextCascade]_vars

SpecBuild == InitBuild /\ [][NextBuild]_vars

SpecPoll == InitPoll /\ [][NextPoll]_vars

SpecSync == InitSync /\ [][NextSync]_vars

SpecStop == InitStop /\ [][NextStop]_vars

SpecCalendar == InitCalendar /\ [][NextCalendar]_vars

\* ------------------------------------------- graph notions for the claims
Range(seq) == {seq[k] : k \in DOMAIN seq}

HasEdge(p, s) == \E k \in DOMAIN reverse_adjacency[s] : reverse_adjacency[s][k][1] = p

SuccessorsOf(S) == {s \in DOMAIN tasks : \E p \in S : HasEdge(p, s)}

\* Tasks reachable from the set S along at least one edge.
RECURSIVE ReachIn(_, _)
ReachIn(S, n) ==
    IF n = 0 \/ S = {} THEN {}
    ELSE LET next == SuccessorsOf(S) IN next \cup ReachIn(next, n - 1)

Descendants(t) == ReachIn({t}, Len(tasks))

Acyclic == \A t \in DOMAIN tasks : t \notin Descendants(t)

\* A full pass over the task table would change nothing.
FixedPoint(ts) == RelaxFrom(ts, 1, FALSE) = <<ts, FALSE>>

\* --------------------------------------------------------------- claims
\* C1: after calculate_dates has finished on an acyclic graph, every recorded
\* edge P -> S with lag L has S.start_date >= P.end_date + L.
C1_Precedence ==
    (pc = "done" /\ Acyclic) =>
        \A s \in DOMAIN tasks : \A k \in DOMAIN reverse_adjacency[s] :
            LET p == reverse_adjacency[s][k][1]
                lag == reverse_adjacency[s][k][2]
            IN  tasks[s].start_date >= tasks[p].end_date + lag

\* A finished run on a two-edge chain whose last task was pushed past its
\* predecessor's end plus a positive lag by the weekend snap.
C1_Witness ==
    /\ pc = "done" /\ Acyclic
    /\ \E s \in DOMAIN tasks : \E k \in DOMAIN reverse_adjacency[s] :
          LET p == reverse_adjacency[s][k][1]
              lag == reverse_adjacency[s][k][2]
          IN  /\ lag > 0
              /\ reverse_adjacency[p] # <<>>
              /\ tasks[s].start_date > tasks[p].end_date + lag

\* C2: on an acyclic graph the relaxation loop ends because a full pass
\* changed nothing (a fixed point), not because the cap len(tasks)+10 was hit.
C2_FixedPointReached ==
    (pc = "done" /\ Acyclic) => (~changed /\ FixedPoint(tasks))

\* An acyclic chain listed against insertion order, so that several passes
\* each moved a task before the quiet pass that ended the loop.
C2_Witness ==
    /\ pc = "done" /\ Acyclic /\ ~changed
    /\ iterations >= 3
    /\ iterations < Len(tasks) + 10

\* C3: on any graph, cyclic ones and self-edges included, calculate_dates
\* performs at most len(tasks)+10 relaxation passes and then returns: the
\* pass counter never exceeds the cap, and once it reaches the cap the loop
\* condition is false, so the only step left is the return.
C3_Terminates ==
    /\ iterations <= Len(tasks) + 10
    /\ (pc = "loop" /\ iterations >= Len(tasks) + 10) => ~loop_cond

\* A call on a cyclic graph that returned only because the cap was hit, the
\* last pass still reporting a change.
C3_Witness ==
    /\ pc = "done" /\ ~Acyclic
    /\ changed
    /\ iterations = Len(tasks) + 10

\* C4: after calculate_dates every task starts on a Monday-Friday day and
\* ends at add_business_days(start_date, max(1, duration) - 1).
C4_WorkdayWindow ==
    pc = "done" =>
        \A t \in DOMAIN tasks :
            /\ weekday(tasks[t].start_date) < 5
            /\ tasks[t].end_date =
                   add_business_days(tasks[t].start_date, max(1, tasks[t].duration) - 1)

\* A finished run with a task without predecessors whose "today" was a
\* weekend, and a task that relaxation moved to a later start.
C4_Witness ==
    /\ pc = "done"
    /\ weekday(today) >= 5
    /\ \E t \in DOMAIN tasks : reverse_adjacency[t] = <<>>
    /\ \E t \in DOMAIN tasks :
          /\ reverse_adjacency[t] # <<>>
          /\ tasks[t].start_date > snap_to_workday(today)

\* C5 as stated: a second run on an already converged graph modifies no
\* task's start or end and none of its relaxation passes reports a change.
C5_NoChangeOnRerun ==
    (rerun /\ FixedPoint(before_call)) =>
        /\ tasks = before_call
        /\ (pc = "loop" /\ iterations >= 1 => ~changed)

\* C5 as amended: a second run on a converged graph, on the same current
\* date, ends with every task's start and end equal to what the first run
\* left, and converges again.
C5_SameResultOnRerun ==
    (rerun /\ pc = "done" /\ FixedPoint(before_call)) =>
        (tasks = before_call /\ ~changed)

\* A second run that has returned on a converged graph with an edge that
\* moved a task, after a weekend "today".
C5_Witness ==
    /\ rerun /\ pc = "done" /\ FixedPoint(before_call)
    /\ weekday(today) >= 5
    /\ \E t \in DOMAIN tasks : tasks[t].start_date > snap_to_workday(today)

\* ---------------------------------------- reconciler notions for the claims
\* The predecessors of g that are in the supplied set.
RcPreds(g) == Range(rc_input[g].dependencies) \cap DOMAIN rc_input

RcSuccessorsOf(S) == {g \in DOMAIN rc_input : RcPreds(g) \cap S # {}}

RECURSIVE RcReachIn(_, _)
RcReachIn(S, n) ==
    IF n = 0 \/ S = {} THEN {}
    ELSE LET next == RcSuccessorsOf(S) IN next \cup RcReachIn(next, n - 1)

RcDescendants(g) == RcReachIn({g}, Len(rc_input))

RcOnCycle == {g \in DOMAIN rc_input : g \in RcDescendants(g)}

RcAcyclic == RcOnCycle = {}

\* Tasks on a cycle or reachable from one.
RcBehindCycle == RcOnCycle \cup UNION {RcDescendants(c) : c \in RcOnCycle}

RcAllParse == \A g \in DOMAIN rc_input :
                  strptime(rc_input[g].start_on).ok /\ strptime(rc_input[g].due_on).ok

SetMax(S) == CHOOSE m \in S : \A x \in S : x <= m

\* The latest due date among the in-set predecessors of g, in a task list.
LatestPredDue(ts, g) == SetMax({ts[p].due_on.day : p \in RcPreds(g)})

\* The dates auto_recalibrate is meant to give a task it moves.
Corrected(g) ==
    LET new_start == snap_to_workday(LatestPredDue(rc_tasks, g))
        d == max(1, count_business_days(rc_input[g].start_on.day, rc_input[g].due_on.day))
    IN  /\ rc_tasks[g].start_on = DateStr("iso", new_start)
        /\ rc_tasks[g].due_on = DateStr("iso", add_business_days(new_start, d - 1))

Untouched(g) == rc_tasks[g] = rc_input[g] /\ g \notin Range(rc_result)

\* C6: after one auto_recalibrate call on an acyclic set whose dates parse,
\* every task starts no earlier than the due date of each in-set predecessor.
C6_StartsAfterPreds ==
    (rc_pc = "returned" /\ RcAcyclic /\ RcAllParse) =>
        \A g \in DOMAIN rc_tasks : \A p \in RcPreds(g) :
            rc_tasks[g].start_on.day >= rc_tasks[p].due_on.day

\* A chain p -> g -> h in which g was moved to a later end in this pass and
\* h was moved after it.
C6_Witness ==
    /\ rc_pc = "returned" /\ RcAcyclic /\ RcAllParse
    /\ \E g, h \in DOMAIN rc_tasks :
          /\ g \in RcPreds(h) /\ RcPreds(g) # {}
          /\ g \in Range(rc_result) /\ h \in Range(rc_result)
          /\ rc_tasks[g].due_on.day > rc_input[g].due_on.day
          /\ rc_input[h].start_on.day < rc_tasks[g].due_on.day

\* C7: every task auto_recalibrate modifies gets start = the latest due date
\* among its in-set predecessors (as corrected in this pass) moved to Monday
\* when it falls on a weekend, and due = add_business_days(start, d - 1) with
\* d = max(1, count_business_days(old start, old due)).
C7_ModifiedDates ==
    rc_pc = "returned" =>
        \A g \in Range(rc_result) : RcPreds(g) # {} /\ Corrected(g)

\* One call that pushed a task that started too early and pulled back one
\* that started later than its latest predecessor's end.
C7_Witness ==
    /\ rc_pc = "returned"
    /\ \E g, h \in Range(rc_result) :
          /\ rc_input[g].start_on.day < LatestPredDue(rc_tasks, g)
          /\ rc_input[h].start_on.day > snap_to_workday(LatestPredDue(rc_tasks, h))

\* Tasks that start before the end of one of their in-set predecessors.
Violators == {g \in DOMAIN rc_input : \E p \in RcPreds(g) :
                  rc_input[g].start_on.day < rc_input[p].due_on.day}

\* C8 as stated: on a DAG with exactly one task that starts before its
\* predecessor's end, the call returns exactly that task, with start ==
\* the predecessor's end and its business-day duration kept.
C8_OnlyTheViolator ==
    (rc_pc = "returned" /\ Cardinality(Violators) = 1 /\ RcAllParse /\ RcAcyclic) =>
        \A v \in Violators :
            /\ rc_result = <<v>>
            /\ rc_tasks[v].start_on.day = LatestPredDue(rc_input, v)
            /\ rc_tasks[v].due_on.day =
                  add_business_days(rc_tasks[v].start_on.day,
                      max(1, count_business_days(rc_input[v].start_on.day,
                                                 rc_input[v].due_on.day)) - 1)

\* Every task other than v that has in-set predecessors starts exactly on
\* its latest predecessor's end.
NoGapBesides(v) ==
    \A g \in DOMAIN rc_input \ {v} :
        RcPreds(g) # {} => rc_input[g].start_on.day = LatestPredDue(rc_input, g)

\* C8 as amended: when moreover every other task starts exactly on its latest
\* predecessor's end, the call returns the violating task first, followed
\* only by tasks downstream of it, with start == the latest predecessor's
\* end moved past a weekend and due == add_business_days(start, d - 1).
C8_ViolatorFirst ==
    (rc_pc = "returned" /\ Cardinality(Violators) = 1 /\ RcAllParse /\ RcAcyclic) =>
        \A v \in Violators :
            NoGapBesides(v) =>
                /\ rc_result # <<>> /\ Head(rc_result) = v
                /\ Range(rc_result) \subseteq {v} \cup RcDescendants(v)
                /\ Corrected(v)

\* The single violating task was moved off a weekend, and its new end
\* displaced a successor that is returned after it.
C8_Witness ==
    /\ rc_pc = "returned" /\ RcAcyclic /\ RcAllParse /\ Cardinality(Violators) = 1
    /\ \A v \in Violators :
          /\ NoGapBesides(v)
          /\ Len(rc_result) >= 2
          /\ rc_tasks[v].start_on.day # LatestPredDue(rc_input, v)

\* C9: the returned list is exactly the set of tasks whose start_on or
\* due_on after the call differs from its value before the call.
C9_ResultIsChangedSet ==
    rc_pc = "returned" =>
        Range(rc_result) = {g \in DOMAIN rc_tasks :
                                \/ rc_tasks[g].start_on # rc_input[g].start_on
                                \/ rc_tasks[g].due_on # rc_input[g].due_on}

\* C10: with a dependency cycle in the set (dates parsing), every task on a
\* cycle or reachable from one keeps its input dates and is not returned,
\* while every other task with predecessors is corrected as usual: it is
\* returned with the corrected dates when it did not start on its latest
\* predecessor's end, and left alone when it did.
C10_CycleLeftAlone ==
    (rc_pc = "returned" /\ ~RcAcyclic /\ RcAllParse) =>
        /\ \A g \in RcBehindCycle : Untouched(g)
        /\ \A g \in DOMAIN rc_tasks \ RcBehindCycle :
              IF RcPreds(g) # {} /\ rc_input[g].start_on.day # LatestPredDue(rc_tasks, g)
              THEN g \in Range(rc_result) /\ Corrected(g)
              ELSE Untouched(g)

\* A call on a set with a cycle whose member breaks precedence and was left
\* alone, while a task away from the cycle was corrected and returned.
C10_Witness ==
    /\ rc_pc = "returned" /\ ~RcAcyclic /\ RcAllParse
    /\ \E c \in RcOnCycle : \E p \in RcPreds(c) :
          rc_tasks[c].start_on.day < rc_tasks[p].due_on.day
    /\ \E g \in Range(rc_result) : g \notin RcBehindCycle

\* ------------------------------------ dangling gids and unparseable dates
\* The task's own start_on and due_on both parse.
RcParses(g) == strptime(rc_input[g].start_on).ok /\ strptime(rc_input[g].due_on).ok

\* The task lists a gid that no task of the set carries.
RcHasDangling(g) == \E k \in DOMAIN rc_input[g].dependencies :
                        rc_input[g].dependencies[k] \notin DOMAIN rc_input

\* Every date the forward pass reads for g parses: its own and the due
\* dates of its in-set predecessors.
RcReadable(g) == RcParses(g) /\ \A p \in RcPreds(g) : strptime(rc_input[p].due_on).ok

\* C11: dependency gids that are not in the supplied set are ignored. A task
\* without in-set predecessors is ordered and never modified, whatever absent
\* gids it lists; a task off every cycle is ordered whatever absent gids it
\* lists, so that with readable dates it is corrected against its in-set
\* predecessors alone when it does not start on the latest of their ends.
C11_DanglingIgnored ==
    rc_pc = "returned" =>
        \A g \in DOMAIN rc_input :
            /\ RcPreds(g) = {} => Untouched(g)
            /\ g \notin RcBehindCycle => g \in Range(sorted_gids(rc_input))
            /\ (g \notin RcBehindCycle /\ RcReadable(g) /\ RcPreds(g) # {}
                  /\ rc_input[g].start_on.day # LatestPredDue(rc_tasks, g))
               => (g \in Range(rc_result) /\ Corrected(g))

\* A task that lists an absent gid ahead of an in-set predecessor was moved
\* behind that predecessor, which has no predecessor itself and was left alone.
C11_Witness ==
    /\ rc_pc = "returned"
    /\ \E g \in Range(rc_result) :
          /\ rc_input[g].dependencies # <<>>
          /\ Head(rc_input[g].dependencies) \notin DOMAIN rc_input
          /\ \E p \in RcPreds(g) : RcPreds(p) = {} /\ Untouched(p)


\* C12: a task whose own start_on or due_on fails to parse is left as it was
\* and is not returned, and every other task whose own dates parse is still
\* processed and corrected: off a cycle, it ends up starting no earlier than
\* the due date of each in-set predecessor whose due date can be read.
C12_SkipsOnlyUnparsed ==
    rc_pc = "returned" =>
        \A g \in DOMAIN rc_input :
            IF ~RcParses(g) THEN Untouched(g)
            ELSE g \notin RcBehindCycle =>
                    \A p \in RcPreds(g) :
                        strptime(rc_tasks[p].due_on).ok =>
                            rc_tasks[g].start_on.day >= rc_tasks[p].due_on.day


\* ------------------------------------ cascade updater notions for the claims
\* The edited task X, when it is in the supplied set.
RdPresent == changed_task_gid \in DOMAIN rd_input

RdSuccessorsOf(S) == {g \in DOMAIN rd_input : Range(rd_input[g].dependencies) \cap S # {}}

RECURSIVE RdReachIn(_, _)
RdReachIn(S, n) ==
    IF n = 0 \/ S = {} THEN {}
    ELSE LET next == RdSuccessorsOf(S) IN next \cup RdReachIn(next, n - 1)

\* The tasks reachable from X along at least one dependency edge.
RdReach == RdReachIn({changed_task_gid}, Len(rd_input))

\* Every date of the request parses: the new end and each task's own dates.
RdAllParse ==
    /\ strptime(new_end_date_str).ok
    /\ \A g \in DOMAIN rd_input :
          strptime(rd_input[g].start_on).ok /\ strptime(rd_input[g].due_on).ok

\* The call is over: it returned, or an exception left it.
RdOver == rd_pc # "call"

\* end minus start, in calendar days.
RdSpan(t) == t.due_on.day - t.start_on.day

\* The tasks whose start_on or due_on differs from what the call was given.
RdChanged == {g \in DOMAIN rd_input :
                 \/ rd_tasks[g].start_on # rd_input[g].start_on
                 \/ rd_tasks[g].due_on # rd_input[g].due_on}

\* C13: for a chain A -> B -> C (A the edited task) whose dates parse, with
\* A's end moved later, B starting no later than A's new end and C no later
\* than B's new end, the call returns B and C as modified, B.start = A's new
\* end, C.start = B's new end, and B and C keep their end-minus-start spans.
C13_ChainCascade ==
    (RdOver /\ RdPresent /\ RdAllParse) =>
        \A b, c \in DOMAIN rd_input :
            LET a == changed_task_gid
                new_end == strptime(new_end_date_str).day
                b_new_end == new_end + RdSpan(rd_input[b])
            IN  ( /\ a # b /\ b # c /\ a # c
                  /\ rd_input[a].dependencies = <<>>
                  /\ rd_input[b].dependencies = <<a>>
                  /\ rd_input[c].dependencies = <<b>>
                  /\ new_end > rd_input[a].due_on.day
                  /\ rd_input[b].start_on.day <= new_end
                  /\ rd_input[c].start_on.day <= b_new_end )
                => /\ rd_pc = "returned"
                   /\ {b, c} \subseteq Range(rd_result)
                   /\ rd_tasks[b].start_on.day = new_end
                   /\ rd_tasks[c].start_on.day = rd_tasks[b].due_on.day
                   /\ RdSpan(rd_tasks[b]) = RdSpan(rd_input[b])
                   /\ RdSpan(rd_tasks[c]) = RdSpan(rd_input[c])

\* C14: once the call for an edited task X of the set is over (all dates
\* parsing), every edge C -> S with C = X or C reachable from X has
\* S.start >= C.end in the final dates.
C14_ReachablePrecedence ==
    (RdOver /\ RdPresent /\ RdAllParse) =>
        \A c \in {changed_task_gid} \cup RdReach : \A s \in RdSuccessorsOf({c}) :
            rd_tasks[s].start_on.day >= rd_tasks[c].due_on.day

\* C15: recalculate_dates never changes the start date of the edited task X,
\* also when X is reachable from its own successors, and changes no task
\* other than X and the tasks reachable from X.
C15_StartOfEditedKept ==
    (RdOver /\ RdPresent) =>
        /\ rd_tasks[changed_task_gid].start_on = rd_input[changed_task_gid].start_on
        /\ RdChanged \subseteq {changed_task_gid} \cup RdReach

\* The call is over for an edited task that lies on a dependency cycle with
\* a successor that started before its new end, and its end was moved.
C15_Witness ==
    /\ RdOver /\ RdPresent /\ RdAllParse
    /\ changed_task_gid \in RdReach
    /\ rd_tasks[changed_task_gid].due_on # rd_input[changed_task_gid].due_on
    /\ \E s \in RdSuccessorsOf({changed_task_gid}) :
          /\ s # changed_task_gid
          /\ rd_input[s].start_on.day < strptime(new_end_date_str).day

\* C16: when the changed task id is not in the supplied set, the call
\* returns an empty list, raises no error and leaves every task as it was.
C16_AbsentIsNoOp ==
    (RdOver /\ ~RdPresent) =>
        (rd_pc = "returned" /\ rd_result = <<>> /\ rd_tasks = rd_input)

\* A call for an absent gid has returned, with a new end that parses and is
\* later than the start of every task of the set.
C16_Witness ==
    /\ rd_pc = "returned" /\ ~RdPresent
    /\ strptime(new_end_date_str).ok
    /\ \A g \in DOMAIN rd_input :
          strptime(rd_input[g].start_on).ok
             => rd_input[g].start_on.day < strptime(new_end_date_str).day

\* C17: when the new end date or the edited task's own start or end does not
\* parse, the call returns an empty list and no task, the edited one
\* included, has had its dates modified.
C17_AbortLeavesDates ==
    (RdOver /\ RdPresent
       /\ (\/ ~strptime(new_end_date_str).ok
           \/ ~strptime(rd_input[changed_task_gid].start_on).ok
           \/ ~strptime(rd_input[changed_task_gid].due_on).ok))
    => (rd_pc = "returned" /\ rd_result = <<>> /\ rd_tasks = rd_input)

\* C18: when the edited task is in the set and every date parses, the call
\* returns (no exception leaves it) a list that contains the edited task.
C18_CompletesNormally ==
    (RdOver /\ RdPresent /\ RdAllParse) =>
        (rd_pc = "returned" /\ changed_task_gid \in Range(rd_result))

\* C19: the returned list holds the edited task X first, then exactly the
\* other tasks whose dates the cascade changed, each task at most once.
C19_ResultList ==
    (RdOver /\ RdPresent /\ RdAllParse) =>
        /\ rd_pc = "returned"
        /\ rd_result # <<>> /\ Head(rd_result) = changed_task_gid
        /\ \A j, k \in DOMAIN rd_result : rd_result[j] = rd_result[k] => j = k
        /\ Range(rd_result) \ {changed_task_gid} = RdChanged \ {changed_task_gid}


\* ------------------------------------------ builder notions for the claims
\* The last resolve_successor call found its predecessor.
CallResolved == resolve_calls >= 1 /\ HasTask(b_prev, b_call.predecessor_id)

\* The tasks that carried the referenced name when the call started.
Carriers == {k \in DOMAIN b_prev : b_prev[k].name = b_call.successor_name}

\* The section of the predecessor of the last call.
CallSection == TaskOf(b_prev, b_call.predecessor_id).section

\* The carriers whose section equals the predecessor's.
SameSectionCarriers == {k \in Carriers : b_prev[k].section = CallSection}

\* The call recorded its edge, forward and reverse, to a same-section carrier.
EdgeToSameSection ==
    /\ \E k \in SameSectionCarriers : b_call.returned = b_prev[k].id
    /\ adjacency # <<>>
    /\ adjacency[Len(adjacency)] = <<b_call.predecessor_id, b_call.returned, 0>>
    /\ b_reverse_adjacency # <<>>
    /\ b_reverse_adjacency[Len(b_reverse_adjacency)] =
          <<b_call.returned, b_call.predecessor_id, 0>>

\* C20 as stated: when several existing tasks carry the referenced name and
\* one of them has the same section as the predecessor, the edge is recorded
\* to a same-section task.
C20_PrefersSameSection ==
    (CallResolved /\ Cardinality(Carriers) >= 2 /\ SameSectionCarriers # {})
        => EdgeToSameSection

\* C20 as amended: the same, for a predecessor that has a section.
C20_PrefersOwnSection ==
    (CallResolved /\ Cardinality(Carriers) >= 2 /\ SameSectionCarriers # {}
        /\ TruthySection(CallSection))
        => EdgeToSameSection

\* A call whose predecessor is in a section, with a carrier of the name in
\* another section inserted ahead of the carrier in the predecessor's
\* section, to which the edge went.
C20_Witness ==
    /\ CallResolved /\ TruthySection(CallSection)
    /\ \E j \in Carriers, k \in SameSectionCarriers :
          /\ j < k
          /\ b_prev[j].section # CallSection
          /\ TruthySection(b_prev[j].section)
          /\ b_call.returned = b_prev[k].id
    /\ EdgeToSameSection

\* ------------------------------------------------ auto-created leaf tasks
\* The name has no task of the request's rows, even when case is ignored.
Undeclared(name) ==
    \A k \in DOMAIN b_tasks :
        b_tasks[k].id.kind = "row" => lower(b_tasks[k].name) # lower(name)

\* The edges recorded before the last one whose successor is a leaf that an
\* earlier call created for the name of the last call.
EarlierLeafEdges ==
    {j \in 1..(Len(adjacency) - 1) :
        /\ adjacency[j][2].kind = "auto"
        /\ TaskOf(b_tasks, adjacency[j][2]).name = b_call.successor_name}

\* C21: for a successor name that matches no declared task, two predecessors
\* of the same section that reference it resolve to one and the same leaf
\* task, and two predecessors of different sections resolve to distinct leaf
\* tasks, in whatever order the calls are made.
C21_LeafPerSection ==
    (CallResolved /\ Undeclared(b_call.successor_name)) =>
        \A j \in EarlierLeafEdges :
            LET section == TaskOf(b_tasks, adjacency[j][1]).section
            IN  /\ section = CallSection => adjacency[j][2] = b_call.returned
                /\ (TruthySection(section) /\ TruthySection(CallSection)
                        /\ section # CallSection)
                      => adjacency[j][2] # b_call.returned

\* ------------------------------------------------------------- add_task
\* The number of times the id is entered in a list of ids.
IdCount(ids, task_id) == Cardinality({k \in DOMAIN ids : ids[k] = task_id})

\* C22: the first add_task call for an id creates the task and enters the id
\* once in the name index, under its name; a later call with the same id
\* changes neither the task table nor the name index, even when it brings
\* another name or another section.
C22_AddTaskIdempotent ==
    TruthyId(b_add.task_id) =>
        IF HasTask(b_add.tasks, b_add.task_id)
        THEN /\ b_tasks = b_add.tasks
             /\ tasks_by_name = b_add.tasks_by_name
        ELSE /\ b_tasks = Append(b_add.tasks, [id |-> b_add.task_id, name |-> b_add.name,
                                               section |-> b_add.section])
             /\ \A k \in DOMAIN tasks_by_name :
                    IdCount(tasks_by_name[k].ids, b_add.task_id)
                        = IF tasks_by_name[k].name = b_add.name THEN 1 ELSE 0
             /\ \E k \in DOMAIN tasks_by_name : tasks_by_name[k].name = b_add.name

\* add_task has just been called for an id the table holds, with another name
\* and another section than the task has.
C22_Witness ==
    /\ TruthyId(b_add.task_id)
    /\ HasTask(b_add.tasks, b_add.task_id)
    /\ TaskOf(b_add.tasks, b_add.task_id).name # b_add.name
    /\ TaskOf(b_add.tasks, b_add.task_id).section # b_add.section
    /\ Len(b_tasks) >= 2

\* ------------------------------------------------------ recorded edges
\* The number of entries of a list of edges equal to e.
EdgeCount(edges, e) == Cardinality({k \in DOMAIN edges : edges[k] = e})

\* C23: after any sequence of add_task and resolve_successor calls, both
\* endpoints of every entry of adjacency and of reverse_adjacency are in the
\* task table, and the forward entries (P, S, lag) and the reverse entries
\* (S, P, lag) correspond one to one.
C23_EdgesClosedAndMirrored ==
    /\ \A k \in DOMAIN adjacency :
          /\ HasTask(b_tasks, adjacency[k][1])
          /\ HasTask(b_tasks, adjacency[k][2])
          /\ EdgeCount(adjacency, adjacency[k])
                = EdgeCount(b_reverse_adjacency,
                            <<adjacency[k][2], adjacency[k][1], adjacency[k][3]>>)
    /\ \A k \in DOMAIN b_reverse_adjacency :
          /\ HasTask(b_tasks, b_reverse_adjacency[k][1])
          /\ HasTask(b_tasks, b_reverse_adjacency[k][2])
          /\ EdgeCount(b_reverse_adjacency, b_reverse_adjacency[k])
                = EdgeCount(adjacency, <<b_reverse_adjacency[k][2], b_reverse_adjacency[k][1],
                                         b_reverse_adjacency[k][3]>>)

\* Two predecessors have an edge to a leaf that resolve_successor created,
\* after a call for a predecessor that the table lacks.
C23_Witness ==
    /\ Len(adjacency) >= 2
    /\ adjacency[1][2].kind = "auto"
    /\ adjacency[2][2] = adjacency[1][2]
    /\ adjacency[2][1] # adjacency[1][1]
    /\ b_reverse_adjacency[2] = <<adjacency[2][2], adjacency[2][1], 0>>

C25_BaselineKept ==
    [][\A g \in DOMAIN history :
          history[g].exists =>
              /\ history'[g].exists
              /\ history'[g].expected_start = history[g].expected_start
              /\ history'[g].expected_end = history[g].expected_end]_vars

\* After a third-party edit, a history write has stored actual dates that
\* differ from the record's baseline.
C25_Witness ==
    /\ ext_edited
    /\ p_pc = "sleep"
    /\ \E g \in DOMAIN history :
          /\ history[g].exists
          /\ history[g].actual_start # history[g].expected_start
          /\ history[g].actual_end # history[g].expected_end

\* The history write of the current cycle has committed.
Persisted == \E k \in DOMAIN cycle_log : cycle_log[k] = Call("persist", 0, TRUE)

\* C26: after a poll cycle's history write has succeeded, the actual start
\* and end stored for each fetched gid are the dates that were fetched from
\* the remote service in that cycle, also when a following push fails.
C26_ActualsAreFetched ==
    Persisted =>
        \A k \in DOMAIN p_fetched :
            /\ history[p_fetched[k].gid].exists
            /\ history[p_fetched[k].gid].actual_start = strptime(p_fetched[k].start_on).day
            /\ history[p_fetched[k].gid].actual_end = strptime(p_fetched[k].due_on).day

\* The last call of the current cycle failed.
LastFailed(op) ==
    /\ cycle_log # <<>>
    /\ cycle_log[Len(cycle_log)].op = op
    /\ ~cycle_log[Len(cycle_log)].ok

\* C27: a failure of a step of a poll cycle never ends the control loop: it
\* is caught; after a failed fetch or a failed push the loop is at its sleep,
\* after a failed history write it goes on with the pushes or the sleep; and
\* from the sleep a new cycle starts with a fetch.
C27_FailureCaught ==
    /\ p_pc \in {"fetch", "reconcile", "persist", "push", "sleep"}
    /\ (LastFailed("fetch") \/ LastFailed("push")) => p_pc = "sleep"
    /\ LastFailed("persist") => p_pc = (IF updates # <<>> THEN "push" ELSE "sleep")
    /\ (p_pc = "fetch" /\ last_cycle \in {"fetch failed", "push failed"}) => cycle_log = <<>>

\* The cycle that followed a cycle whose push failed has fetched and
\* reconciled, and has its history write failing.
C27_Witness ==
    /\ last_cycle = "push failed"
    /\ LastFailed("persist")
    /\ p_pc = "push"

\* The gids of the tasks the current cycle has pushed or tried to push.
Pushes == SubSeq(cycle_log, 4, Len(cycle_log))

\* C28: within one poll cycle the steps come in the order fetch, reconcile,
\* persist, push; the corrections are pushed one at a time in the order the
\* Reconciler returned them, each with the dates the Reconciler gave it, so
\* that a corrected predecessor of a pushed task has been pushed before it.
C28_StepOrder ==
    /\ \A k \in DOMAIN cycle_log :
          cycle_log[k].op = (IF k = 1 THEN "fetch" ELSE IF k = 2 THEN "reconcile"
                             ELSE IF k = 3 THEN "persist" ELSE "push")
    /\ Len(Pushes) <= Len(updates)
    /\ \A k \in DOMAIN Pushes :
          /\ Pushes[k].gid = updates[k]
          /\ \A p \in Range(p_tasks[Pushes[k].gid].dependencies) \cap Range(updates) :
                \E j \in 1..(k - 1) : Pushes[j].gid = p /\ Pushes[j].ok
    /\ (p_pc = "push" \/ last_cycle \in {"complete", "push failed"}) =>
          \A k \in DOMAIN Pushes :
              Pushes[k].ok =>
                  /\ asana_tasks[Pushes[k].gid].start_on = p_tasks[Pushes[k].gid].start_on
                  /\ asana_tasks[Pushes[k].gid].due_on = p_tasks[Pushes[k].gid].due_on

\* A cycle has pushed a corrected task and then a corrected successor of it.
C28_Witness ==
    /\ p_pc = "sleep"
    /\ Len(Pushes) = 2
    /\ Pushes[1].ok /\ Pushes[2].ok
    /\ Pushes[1].gid \in Range(p_tasks[Pushes[2].gid].dependencies)
    /\ Persisted

\* The dependencies of the fetched tasks have no cycle.
PollAcyclic == Len(sorted_gids(p_tasks)) = Len(p_tasks)

\* C29: when the dependency graph is acyclic, every push succeeds and no
\* third party has edited a task since, the Reconciler of every cycle after
\* a cycle that pushed all its corrections returns no correction, also when
\* a task without predecessors ends on a weekend.
C29_Quiescence ==
    (last_cycle = "complete" /\ p_pc \in {"persist", "push"} /\ PollAcyclic)
        => updates = <<>>

\* C30: two consecutive pushes of one cycle are separated by a delay step.
C30_DelayBetweenPushes ==
    \A k \in 1..(Len(cycle_log) - 1) :
        ~(cycle_log[k].op = "push" /\ cycle_log[k + 1].op = "push")

\* The latest of P.end_date + lag over the incoming edges of a task.
RECURSIVE LatestConstraint(_, _)
LatestConstraint(ts, preds) ==
    IF Len(preds) = 1 THEN ts[preds[1][1]].end_date + preds[1][2]
    ELSE max(ts[Head(preds)[1]].end_date + Head(preds)[2],
             LatestConstraint(ts, Tail(preds)))

\* The first weekday on or after d.
NextWorkday(d) ==
    CHOOSE w \in d..(d + 2) :
        /\ weekday(w) < 5
        /\ \A v \in d..(w - 1) : weekday(v) >= 5

\* C36: after calculate_dates has finished on an acyclic graph, every task
\* with incoming edges (several edges, repeated edges between one pair with
\* different lags included) starts exactly at the later of the snapped today
\* and the snapped latest P.end_date + lag of its edges, never later.
C36_TightSchedule ==
    (pc = "done" /\ Acyclic) =>
        \A s \in DOMAIN tasks :
            reverse_adjacency[s] # <<>> =>
                tasks[s].start_date =
                    max(NextWorkday(today),
                        NextWorkday(LatestConstraint(tasks, reverse_adjacency[s])))

\* A finished run in which a task has two edges from the same predecessor
\* with different lags, and was moved past the snapped today to the snapped
\* larger constraint.
C36_Witness ==
    /\ pc = "done" /\ Acyclic
    /\ \E s \in DOMAIN tasks :
          /\ \E j, k \in DOMAIN reverse_adjacency[s] :
                /\ reverse_adjacency[s][j][1] = reverse_adjacency[s][k][1]
                /\ reverse_adjacency[s][j][2] # reverse_adjacency[s][k][2]
          /\ tasks[s].start_date > NextWorkday(today)
          /\ tasks[s].start_date =
                NextWorkday(LatestConstraint(tasks, reverse_adjacency[s]))

\* C37: a pass of the relaxation loop never lowers a task's start or end
\* date, and no task starts before the first weekday on or after today,
\* before or after the pass.
C37_DatesOnlyRise ==
    [][(pc = "loop" /\ iterations' = iterations + 1) =>
          \A i \in DOMAIN tasks :
              /\ tasks'[i].start_date >= tasks[i].start_date
              /\ tasks'[i].end_date >= tasks[i].end_date
              /\ tasks[i].start_date >= NextWorkday(today)
              /\ tasks'[i].start_date >= NextWorkday(today)]_vars

\* In the middle of the loop, after a pass that moved a task past the
\* snapped today, with today on a Saturday.
C37_Witness ==
    /\ pc = "loop" /\ iterations >= 2 /\ changed
    /\ weekday(today) >= 5
    /\ \E i \in DOMAIN tasks : tasks[i].start_date > NextWorkday(today)

\* C33: the list get_scheduled_tasks returns holds every task of the graph
\* exactly once, in ascending order of start date, and each entry lists the
\* predecessor ids of its incoming edges, one per edge in recorded order with
\* repeats kept, with the predecessors' names at the same positions.
C33_ScheduledList ==
    scheduled # <<>> =>
        /\ Len(scheduled) = Len(tasks)
        /\ \A i \in DOMAIN tasks :
              Cardinality({k \in DOMAIN scheduled : scheduled[k].id = i}) = 1
        /\ \A k \in 1..(Len(scheduled) - 1) :
              scheduled[k].start_date.day <= scheduled[k + 1].start_date.day
        /\ \A k \in DOMAIN scheduled :
              LET r == scheduled[k]
                  edges == reverse_adjacency[r.id]
              IN  /\ r.start_date = [kind |-> "iso", day |-> tasks[r.id].start_date]
                  /\ Len(r.dependencies) = Len(edges)
                  /\ Len(r.dependency_names) = Len(edges)
                  /\ \A j \in DOMAIN edges :
                        /\ r.dependencies[j] = edges[j][1]
                        /\ r.dependency_names[j] = task_name(edges[j][1])

\* A returned list whose order differs from the insertion order, with an
\* entry that lists the same predecessor twice.
C33_Witness ==
    /\ scheduled # <<>>
    /\ \E k \in 1..(Len(scheduled) - 1) : scheduled[k].id > scheduled[k + 1].id
    /\ \E k \in DOMAIN scheduled :
          /\ Len(scheduled[k].dependencies) = 2
          /\ scheduled[k].dependencies[1] = scheduled[k].dependencies[2]

Weekdays(S) == {x \in S : weekday(x) < 5}

\* C32: from a weekday d and any n >= 0, add_business_days(d, n) is a weekday
\* and count_business_days(d, that date) is n + 1; the days added are the n
\* weekdays after d and the days counted are the weekdays of the span, so no
\* Saturday or Sunday is counted by either function.
C32_CalendarRoundTrip ==
    /\ (cal_pc \in {"count", "counted"} /\ weekday(cal_from) < 5) =>
          /\ weekday(cal_end) < 5
          /\ Cardinality(Weekdays((cal_from + 1)..cal_end)) = cal_days
    /\ (cal_pc = "counted" /\ weekday(cal_from) < 5) =>
          cal_count = cal_days + 1
    /\ cal_pc = "counted" =>
          cal_count = Cardinality(Weekdays(cal_from..cal_end))

\* A Friday start with enough days to add that the span crosses a weekend.
C32_Witness ==
    /\ cal_pc = "counted"
    /\ weekday(cal_from) = 4
    /\ cal_days >= 2
    /\ cal_end - cal_from > cal_days
    /\ cal_count = cal_days + 1

\* ------------------------------------------------ section inheritance
\* The tasks that have an edge into the task at position k.
PredsAt(k) == {j \in DOMAIN b_tasks :
                 \E e \in DOMAIN b_reverse_adjacency :
                     /\ b_reverse_adjacency[e][1] = b_tasks[k].id
                     /\ b_reverse_adjacency[e][2] = b_tasks[j].id}

\* C31: after the pass of inherit_missing_sections the task table has the
\* same tasks; a task that had a section has kept it; and a task that lacked
\* a section and has a predecessor that had one before the call holds the
\* section of one of its predecessors.
C31_InheritOnlyMissing ==
    b_inherit.done =>
        /\ Len(b_tasks) = Len(b_inherit.tasks)
        /\ \A k \in DOMAIN b_tasks :
              /\ b_tasks[k].id = b_inherit.tasks[k].id
              /\ b_tasks[k].name = b_inherit.tasks[k].name
              /\ TruthySection(b_inherit.tasks[k].section) =>
                    b_tasks[k].section = b_inherit.tasks[k].section
              /\ (/\ ~TruthySection(b_inherit.tasks[k].section)
                  /\ \E j \in PredsAt(k) : TruthySection(b_inherit.tasks[j].section))
                    => /\ TruthySection(b_tasks[k].section)
                       /\ \E j \in PredsAt(k) : b_tasks[k].section = b_tasks[j].section

\* After the pass: a task that lacked a section has taken the section of
\* its second predecessor, the first one having none, and both predecessors
\* are as they were.
C31_Witness ==
    /\ b_inherit.done
    /\ \E k \in DOMAIN b_tasks :
          LET preds == incoming_preds(b_reverse_adjacency, b_tasks[k].id)
          IN  /\ ~TruthySection(b_inherit.tasks[k].section)
              /\ Len(preds) = 2
              /\ ~TruthySection(TaskOf(b_inherit.tasks, preds[1]).section)
              /\ TruthySection(TaskOf(b_inherit.tasks, preds[2]).section)
              /\ b_tasks[k].section = TaskOf(b_inherit.tasks, preds[2]).section
              /\ TaskOf(b_tasks, preds[1]) = TaskOf(b_inherit.tasks, preds[1])
              /\ TaskOf(b_tasks, preds[2]) = TaskOf(b_inherit.tasks, preds[2])

\* ------------------------------------------------- cascade traversal
\* The tasks the traversal expands: the edited task and every task it moved.
RdExpanded == {changed_task_gid} \cup RdChanged

\* The predecessors of s among the tasks of the call.
RdPredsOf(s) == Range(rd_input[s].dependencies) \cap DOMAIN rd_input

C39_NoCallAfterStop ==
    stop_mark >= 0 =>
        \A k \in (stop_mark + 1)..Len(cycle_log) :
            cycle_log[k].op \notin {"fetch", "push"}

====
